---- MODULE Spec2Model ----
(***************************************************************************)
(* zm-aidect: the shared-memory monitor client (src/src/zoneminder.rs),    *)
(* its image stream, and the coalescing EventTracker (src/src/main.rs).    *)
(*                                                                         *)
(* The program has one foreground thread; `pc` is its position.  The host  *)
(* ("publisher") and any other writer of the region are the environment.   *)
(* The specifications share the variables:                                 *)
(*   SpecTrigger  Monitor::trigger / Monitor::is_idle against the host     *)
(*   SpecStream   Monitor::stream_images / ImageStream::next               *)
(*   SpecTracker  coalescing::EventTracker                                 *)
(*   SpecLayout   the Memory.pm layout resolver and MonitorShm's typed     *)
(*                access (src/src/zoneminder/shm.rs)                       *)
(*   SpecImagesOffset  the image ring offset of Monitor::stream_images     *)
(*   SpecWatchdog      the main loop's ThreadedWatchdog (src/src/main.rs)  *)
(*   SpecInfer         the post-filter of infer (src/src/main.rs)          *)
(*   SpecRun           main and run: start-up, the loop over the frames,   *)
(*                     the watchdog and metrics threads (src/src/main.rs)  *)
(*   SpecPacemaker     RealtimePacemaker::tick (src/src/main.rs)           *)
(*   SpecZone          ZoneConfig::parse and the zone's bounding box       *)
(*                     (src/src/zoneminder/db.rs)                          *)
(***************************************************************************)
EXTENDS Integers, Sequences, FiniteSets, TLC

VARIABLES
    shm,          \* the region: [sd |-> SharedData, td |-> TriggerData]
    pathIno,      \* inode the mmap path resolves to now (NoIno: path missing)
    pc,           \* position of the foreground thread
    op,           \* the Monitor operation in progress / last finished
    args,         \* arguments of the trigger call in progress
    n,            \* loop counter of the poll loop in Monitor::trigger
    snap,         \* MonitorState value produced by the preads of read()
    td_local,     \* the local `trigger_data` of set_trigger / reset_trigger
    result,       \* what the last finished operation returned
    logged,       \* the give-up message of the poll loop was printed
    stream,       \* the ImageStream object
    \* ---- history variables (observers, never read by the program) ----
    wlog,         \* pwrites of the trigger call in progress / last finished
    lastRead,     \* what the last read() saw and answered
    touched,      \* another writer wrote TriggerData since the call began
    envSteps,     \* environment steps taken so far
    emitted,      \* slot indexes of the frames the stream returned, newest last
    exitObs,      \* what let the poll loop of the last trigger call end
    \* ---- EventTracker ----
    current_event,\* EventTracker.current_event
    tr_ret,       \* value returned by the last EventTracker call
    tr_hist,      \* history: last call, pushes since the last clear, flushed run
    \* ---- layout resolver and MonitorShm (shm.rs) ----
    memory_pm,    \* the struct definitions of $mem_data in Memory.pm
    LAYOUT,       \* the lazy static LAYOUT: Unresolved or the resolved Struct
    file,         \* bytes of the mapped file MonitorShm works on
    access,       \* history: the last MonitorShm access and what it did
    \* ---- the offsets computed by stream_images ----
    config,                   \* the MonitorSettings: [image_buffer_count]
    shared_timestamps_offset, \* the local of that name
    shared_images_offset,     \* the result stored in the ImageStream
    \* ---- ThreadedWatchdog and the main loop ----
    watchdog,     \* the channel and the watchdog thread's recv_timeout
    main_loop,    \* the loop of run(): "running" or "stalled"
    exit_code,    \* what std::process::exit was called with, if it was
    \* ---- the stages of the pipeline (main.rs, zoneminder/db.rs) ----
    inferred,     \* a call of infer: the detector's output, the zone, the result
    dbzone,       \* the Zones row: Name and Coords (and the tokens they join)
    zone_config,  \* what ZoneConfig::parse made of it, and its bounding box
    pacemaker,    \* the RealtimePacemaker: last_tick, the samples of avg
    paced,        \* history: the workloads before the ticks, the last sleep
    run           \* the process in `run`: position, locals, threads, exit

vars == << shm, pathIno, pc, op, args, n, snap, td_local, result, logged, stream,
           wlog, lastRead, touched, envSteps, emitted, exitObs,
           current_event, tr_ret, tr_hist,
           memory_pm, LAYOUT, file, access,
           config, shared_timestamps_offset, shared_images_offset,
           watchdog, main_loop, exit_code,
           inferred, dbzone, zone_config, pacemaker, paced, run >>

monitorVars == << shm, pathIno, pc, op, args, n, snap, td_local, result, logged,
                  stream, wlog, lastRead, touched, envSteps, emitted, exitObs >>
trackerVars == << current_event, tr_ret, tr_hist >>
layoutVars == << memory_pm, LAYOUT, file, access >>
\* everything an operation of the Monitor / of the EventTracker leaves alone
offsetVars == << config, shared_timestamps_offset, shared_images_offset >>
watchdogVars == << watchdog, main_loop, exit_code >>
stageVars == << inferred, dbzone, zone_config, pacemaker, paced, run >>
notMonitorVars == << trackerVars, layoutVars, offsetVars, watchdogVars, stageVars >>
notTrackerVars == << monitorVars, layoutVars, offsetVars, watchdogVars, stageVars >>
notLayoutVars == << monitorVars, trackerVars, offsetVars, watchdogVars, stageVars >>
notOffsetVars == << monitorVars, trackerVars, layoutVars, watchdogVars, stageVars >>
notWatchdogVars == << monitorVars, trackerVars, layoutVars, offsetVars, stageVars >>
\* what the stages of the pipeline leave alone when they run on their own
regionVars == << monitorVars, layoutVars, offsetVars, watchdogVars >>
\* what a step of main and run leaves alone: all but run and current_event
notRunVars == << regionVars, tr_ret, tr_hist, inferred, dbzone, zone_config,
                 pacemaker, paced >>

----------------------------------------------------------------------------
(* Bounds of the model *)

\* longest detection list the tracker is driven to
MaxDetections == 3
\* event ids range over 1..MaxEventId
MaxEventId == 2

----------------------------------------------------------------------------
(* coalescing::EventTracker  (src/src/main.rs 402-466)                      *)

\* Detection.confidence is an f32 in [0,1]; the model keeps it as a count of
\* 1/10000ths, so several confidences share one floor(confidence * 1000).
Detections ==
    { [confidence |-> 4990, class_id |-> 1],
      [confidence |-> 5000, class_id |-> 1],
      [confidence |-> 5004, class_id |-> 1],
      [confidence |-> 5004, class_id |-> 3] }

EventIds == 1..MaxEventId

None == [some |-> FALSE]

\* the closure of max_by_key: (d.confidence * 1000.0) as u32
ConfidenceKey(d) == (d.confidence * 1000) \div 10000

\* Iterator::max_by_key: the element with the maximum key; "if several
\* elements are equally maximum, the last element is returned".
RECURSIVE MaxByKeyFrom(_, _, _)
MaxByKeyFrom(s, i, best) ==
    IF i > Len(s) THEN best
    ELSE MaxByKeyFrom(s, i + 1,
            IF ConfidenceKey(s[i]) >= ConfidenceKey(best) THEN s[i] ELSE best)

\* a maximum search that keeps the first of equally maximum elements
RECURSIVE MaxByKeyFirstFrom(_, _, _)
MaxByKeyFirstFrom(s, i, best) ==
    IF i > Len(s) THEN best
    ELSE MaxByKeyFirstFrom(s, i + 1,
            IF ConfidenceKey(s[i]) > ConfidenceKey(best) THEN s[i] ELSE best)

MaxByKey_First(s) == MaxByKeyFirstFrom(s, 2, s[1])

\* self.detections.iter().max_by_key(..).unwrap() on a non-empty list
MaxByKey(s) == MaxByKeyFrom(s, 2, s[1])

\* a clear that returns the update but does not take() the current event
ClearOf_KeepsEvent(cur) ==
    IF ~cur.some THEN [cur |-> None, ret |-> None]
    ELSE [cur |-> cur,
          ret |-> [some |-> TRUE, event_id |-> cur.event_id,
                   detection |-> MaxByKey(cur.detections)]]

\* EventTracker::clear as a function of current_event: (new current_event, return)
ClearOf(cur) ==
    IF ~cur.some THEN [cur |-> None, ret |-> None]
    ELSE [cur |-> None,
          ret |-> [some |-> TRUE, event_id |-> cur.event_id,
                   detection |-> MaxByKey(cur.detections)]]

\* a push_detection whose update names the pushed id, not the flushed event's
PushOf_NewId(cur, d, event_id) ==
    IF cur.some /\ cur.event_id = event_id
    THEN [cur |-> [cur EXCEPT !.detections = Append(@, d)], ret |-> None]
    ELSE [cur |-> [some |-> TRUE, event_id |-> event_id, detections |-> << d >>],
          ret |-> IF ClearOf(cur).ret.some
                  THEN [ClearOf(cur).ret EXCEPT !.event_id = event_id]
                  ELSE None]

\* a push_detection that flushes on every push to an existing event
PushOf_AlwaysFlushes(cur, d, event_id) ==
    IF cur.some
    THEN [cur |-> [some |-> TRUE, event_id |-> event_id, detections |-> << d >>],
          ret |-> ClearOf(cur).ret]
    ELSE [cur |-> [some |-> TRUE, event_id |-> event_id, detections |-> << d >>],
          ret |-> None]

\* a push_detection that replaces the current event without flushing it
PushOf_LosesFlushed(cur, d, event_id) ==
    IF cur.some /\ cur.event_id = event_id
    THEN [cur |-> [cur EXCEPT !.detections = Append(@, d)], ret |-> None]
    ELSE [cur |-> [some |-> TRUE, event_id |-> event_id, detections |-> << d >>],
          ret |-> None]

\* EventTracker::push_detection as a function: (new current_event, return)
PushOf(cur, d, event_id) ==
    IF cur.some /\ cur.event_id = event_id
    THEN [cur |-> [cur EXCEPT !.detections = Append(@, d)], ret |-> None]
    ELSE \* no current event (clear() not called, update = None), or a
         \* differing id (update = self.clear())
         [cur |-> [some |-> TRUE, event_id |-> event_id, detections |-> << d >>],
          ret |-> IF cur.some THEN ClearOf(cur).ret ELSE None]

NoHist == [call |-> "new", pushes |-> 0, last_id |-> 0, before |-> None]

push_detection(d, event_id) ==
    /\ pc = "tracker"
    /\ current_event.some /\ current_event.event_id = event_id
          => Len(current_event.detections) < MaxDetections
    /\ current_event' = PushOf(current_event, d, event_id).cur
    /\ tr_ret' = PushOf(current_event, d, event_id).ret
    /\ tr_hist' = [call |-> "push",
                   pushes |-> IF tr_hist.pushes < MaxDetections
                              THEN tr_hist.pushes + 1 ELSE tr_hist.pushes,
                   last_id |-> event_id,
                   d |-> d,
                   before |-> current_event]
    /\ UNCHANGED notTrackerVars

clear ==
    /\ pc = "tracker"
    /\ current_event' = ClearOf(current_event).cur
    /\ tr_ret' = ClearOf(current_event).ret
    /\ tr_hist' = [call |-> "clear", pushes |-> 0, last_id |-> tr_hist.last_id,
                   before |-> current_event,
                   pushes_before |-> tr_hist.pushes]
    /\ UNCHANGED notTrackerVars

PushDetection == \E d \in Detections, e \in EventIds : push_detection(d, e)

----------------------------------------------------------------------------
(* The shared-memory region and the Monitor handle                          *)
(* (src/src/zoneminder.rs 31-208, enums src/src/zoneminder/shm.rs 513-556)  *)

\* shm::MonitorState
Unknown == 0
Idle == 1
Prealarm == 2
Alarm == 3
Alert == 4
Tape == 5
MonitorStates == {Unknown, Idle, Prealarm, Alarm, Alert, Tape}

\* shm::TriggerState
TriggerCancel == 0
TriggerOn == 1
TriggerOff == 2
TriggerStates == {TriggerCancel, TriggerOn, TriggerOff}

\* shm::SubpixelOrder
SPO_NONE == 2
SPO_BGR == 5
SPO_RGB == 6
SPO_BGRA == 7
SPO_RGBA == 8
SPO_ABGR == 9
SPO_ARGB == 10

\* Layout of MonitorSharedData / MonitorTriggerData (spec.md section 6):
\* size_of::<MonitorSharedData>(), size_of::<MonitorTriggerData>() and the
\* capacities of the three text fields.
SharedDataSize == 760
TriggerDataSize == 560
CauseCap == 32
TextCap == 256
ShowtextCap == 256

\* offset and size of each TriggerData field inside the struct
TdField ==
    [ size             |-> [off |-> 0,   len |-> 4],
      trigger_state    |-> [off |-> 4,   len |-> 4],
      trigger_score    |-> [off |-> 8,   len |-> 4],
      padding          |-> [off |-> 12,  len |-> 4],
      trigger_cause    |-> [off |-> 16,  len |-> CauseCap],
      trigger_text     |-> [off |-> 48,  len |-> TextCap],
      trigger_showtext |-> [off |-> 304, len |-> ShowtextCap] ]

\* Monitor::connect: trigger_data_offset = size_of::<MonitorSharedData>()
trigger_data_offset == SharedDataSize

\* inode recorded by Monitor::connect; inode of a re-created file; no file
Ino == "ino_at_connect"
NewIno == "ino_recreated"
NoIno == "no_file"

\* poll loop of Monitor::trigger
PollGiveUp == 500

(* Bounds *)
\* the poll counter saturates here (the code's `for n in 0..` never ends)
MaxPolls == 503
\* environment steps (host state changes, invalidation, file replacement,
\* foreign trigger writes) per behaviour
MaxEnvSteps == 2
\* slots of the image ring (Monitors.ImageBufferCount)
ImageBufferCount == 3
\* frame size (Monitors.Width, Monitors.Height)
FrameWidth == 2
FrameHeight == 1

\* A byte array of the region (i8[cap]) is kept as an explicit prefix `head`
\* followed by cap - Len(head) copies of the byte `fill`; `head` never ends
\* with `fill`, so equal arrays have equal representations.
RECURSIVE Trim(_, _)
Trim(head, fill) ==
    IF head # << >> /\ head[Len(head)] = fill
    THEN Trim(SubSeq(head, 1, Len(head) - 1), fill)
    ELSE head

Buf(cap, head, fill) == [cap |-> cap, head |-> Trim(head, fill), fill |-> fill]
Bytes(cap, b) == Buf(cap, << >>, b)
Zeros(cap) == Bytes(cap, 0)
ByteAt(buf, i) == IF i <= Len(buf.head) THEN buf.head[i] ELSE buf.fill
AllZero(buf) == \A i \in 1..buf.cap : ByteAt(buf, i) = 0

\* dst[..src.len()].copy_from_slice(src): defined when Len(src) <= dst.cap
CopyPrefix(dst, src) ==
    Buf(dst.cap,
        IF Len(src) >= Len(dst.head) THEN src
        ELSE src \o SubSeq(dst.head, Len(src) + 1, Len(dst.head)),
        dst.fill)

NoResult == [kind |-> "None"]
Ok(v) == [kind |-> "Ok", value |-> v]
Err(e) == [kind |-> "Err", err |-> e]
NoRead == [some |-> FALSE]
NoSnap == [some |-> FALSE]
NoArgs == [some |-> FALSE]
NoExit == [some |-> FALSE]

\* Monitor::check_file_stale: fs::metadata(path)?.ino() != self.ino
CheckFileStale(path_ino) ==
    IF path_ino = NoIno THEN "IoError"
    ELSE IF path_ino # Ino THEN "Stale"
    ELSE "Ok"

\* a read that checks the inode before the valid byte
ReadOutcome_StaleFirst(s, path_ino) ==
    IF CheckFileStale(path_ino) # "Ok" THEN CheckFileStale(path_ino)
    ELSE IF s.sd.valid = 0 THEN "ShmInvalid"
    ELSE IF s.sd.size # SharedDataSize THEN "Panic"
    ELSE IF s.td.size # TriggerDataSize THEN "Panic"
    ELSE "Ok"

\* a read without the valid check
ReadOutcome_NoValidCheck(s, path_ino) ==
    IF CheckFileStale(path_ino) # "Ok" THEN CheckFileStale(path_ino)
    ELSE IF s.sd.size # SharedDataSize THEN "Panic"
    ELSE IF s.td.size # TriggerDataSize THEN "Panic"
    ELSE "Ok"

\* Monitor::read after its two preads: the valid check, the stale check, the
\* two size assertions.
ReadOutcome(s, path_ino) ==
    IF s.sd.valid = 0 THEN "ShmInvalid"
    ELSE IF CheckFileStale(path_ino) # "Ok" THEN CheckFileStale(path_ino)
    ELSE IF s.sd.size # SharedDataSize THEN "Panic"
    ELSE IF s.td.size # TriggerDataSize THEN "Panic"
    ELSE "Ok"

\* history: what a read() saw when it answered
ReadRecord(s, path_ino) ==
    [some |-> TRUE, valid |-> s.sd.valid,
     stale |-> (path_ino # NoIno /\ path_ino # Ino),
     trigger_state |-> s.td.trigger_state,
     last_write_index |-> s.sd.last_write_index,
     last_event_id |-> s.sd.last_event_id,
     outcome |-> ReadOutcome(s, path_ino)]

\* where the `?` after a failed read() (or a panic) leaves the thread
Fail(outcome) ==
    IF outcome = "Panic"
    THEN /\ pc' = "panicked"
         /\ result' = NoResult
    ELSE /\ pc' = "idle"
         /\ result' = Err(outcome)

\* Monitor::pread x2 at the start of Monitor::read, for each caller of read
PreadSites ==
    [ set_pread |-> "set_check", poll_pread |-> "poll_check",
      reset_pread |-> "reset_check", ret_pread |-> "ret_check",
      idle_pread |-> "idle_check", si_pread |-> "si_check",
      wait_pread |-> "wait_check" ]

pread ==
    /\ pc \in DOMAIN PreadSites
    /\ snap' = [some |-> TRUE, sd |-> shm.sd, td |-> shm.td]
    /\ pc' = PreadSites[pc]
    /\ UNCHANGED << shm, pathIno, op, args, n, td_local, result, logged, stream,
                    wlog, lastRead, touched, envSteps, emitted, exitObs >>
    /\ UNCHANGED notMonitorVars

----------------------------------------------------------------------------
(* Monitor::trigger, set_trigger, reset_trigger, is_idle                    *)
(* (src/src/zoneminder.rs 91-141)                                           *)

\* arguments the model calls trigger with: (cause, description, score)
TriggerArgs ==
    { [some |-> TRUE, cause |-> << 97, 105 >>, description |-> << 72, 117, 109 >>,
       score |-> 88],
      [some |-> TRUE, cause |-> [i \in 1..(CauseCap + 1) |-> 97], description |-> << 72 >>,
       score |-> 1] }

\* record of one Monitor::pwrite(offset, &T)
WriteRec(offset, len, data) == [offset |-> offset, len |-> len, data |-> data]

\* a set_trigger that stores On together with the auxiliary data
SetTriggerData_StateFirst(td, a) ==
    [td EXCEPT !.trigger_cause = CopyPrefix(@, a.cause),
               !.trigger_text = CopyPrefix(@, a.description),
               !.trigger_showtext = Zeros(@.cap),
               !.trigger_score = a.score,
               !.trigger_state = TriggerOn]

\* set_trigger lines 121-125: the local copy after the four assignments
SetTriggerData(td, a) ==
    [td EXCEPT !.trigger_cause = CopyPrefix(@, a.cause),
               !.trigger_text = CopyPrefix(@, a.description),
               !.trigger_showtext = Zeros(@.cap),
               !.trigger_score = a.score]

\* a reset that leaves trigger_text in place
ResetTriggerData_KeepsText(td) ==
    [td EXCEPT !.trigger_cause = Zeros(@.cap),
               !.trigger_showtext = Zeros(@.cap),
               !.trigger_score = 0]

\* a reset that clears the padding word as well
ResetTriggerData_ClearsAll(td) ==
    [td EXCEPT !.trigger_cause = Zeros(@.cap),
               !.trigger_text = Zeros(@.cap),
               !.trigger_showtext = Zeros(@.cap),
               !.trigger_score = 0,
               !.padding = 1 - @]

\* reset_trigger lines 133-137
ResetTriggerData(td) ==
    [td EXCEPT !.trigger_cause = Zeros(@.cap),
               !.trigger_text = Zeros(@.cap),
               !.trigger_showtext = Zeros(@.cap),
               !.trigger_score = 0]

\* a break condition that also accepts Prealarm
PollExit_AlsoPrealarm(state) == state = Alarm \/ state = Alert \/ state = Prealarm

\* the break condition of the poll loop, line 105
PollExit(state) == state = Alarm \/ state = Alert

\* a trigger that returns the last_event_id its poll loop saw
ReturnedEventId_FromPoll(polled, fresh) == polled.last_event_id

\* line 114: the value returned is the one of the read() made on that line
ReturnedEventId(polled, fresh) == fresh.sd.last_event_id

\* `for n in 0..`: the counter after one more iteration (saturating in the model)
NextN(k) == IF k < MaxPolls THEN k + 1 ELSE k

CallTrigger(a) ==
    /\ pc = "idle"
    /\ op' = "trigger"
    /\ args' = a
    /\ pc' = "set_pread"
    /\ n' = 0
    /\ logged' = FALSE
    /\ result' = NoResult
    /\ wlog' = << >>
    /\ lastRead' = NoRead
    /\ touched' = FALSE
    /\ exitObs' = NoExit
    /\ UNCHANGED << shm, pathIno, snap, td_local, stream, envSteps, emitted >>
    /\ UNCHANGED notMonitorVars

Trigger == \E a \in TriggerArgs : CallTrigger(a)

\* set_trigger: the rest of read(), then lines 118-125
set_check ==
    /\ pc = "set_check"
    /\ lastRead' = ReadRecord(snap, pathIno)
    /\ snap' = NoSnap
    /\ IF ReadOutcome(snap, pathIno) # "Ok"
       THEN /\ Fail(ReadOutcome(snap, pathIno))
            /\ UNCHANGED td_local
       ELSE IF Len(args.cause) > CauseCap \/ Len(args.description) > TextCap
       THEN \* slice index out of range
            /\ pc' = "panicked"
            /\ UNCHANGED << td_local, result >>
       ELSE /\ td_local' = SetTriggerData(snap.td, args)
            /\ pc' = "set_w1"
            /\ UNCHANGED result
    /\ UNCHANGED << shm, pathIno, op, args, n, logged, stream,
                    wlog, touched, envSteps, emitted, exitObs >>
    /\ UNCHANGED notMonitorVars

\* line 127: self.pwrite(self.trigger_data_offset, &trigger_data)
set_w1 ==
    /\ pc = "set_w1"
    /\ shm' = [shm EXCEPT !.td = td_local]
    /\ wlog' = Append(wlog, WriteRec(trigger_data_offset, TriggerDataSize, td_local))
    /\ pc' = "set_w2"
    /\ UNCHANGED << pathIno, op, args, n, snap, td_local, result, logged, stream,
                    lastRead, touched, envSteps, emitted, exitObs >>
    /\ UNCHANGED notMonitorVars

\* lines 128-129: trigger_state = TriggerOn, second pwrite
set_w2 ==
    /\ pc = "set_w2"
    /\ td_local' = [td_local EXCEPT !.trigger_state = TriggerOn]
    /\ shm' = [shm EXCEPT !.td = td_local']
    /\ wlog' = Append(wlog, WriteRec(trigger_data_offset, TriggerDataSize, td_local'))
    /\ pc' = "poll_pread"
    /\ UNCHANGED << pathIno, op, args, n, snap, result, logged, stream,
                    lastRead, touched, envSteps, emitted, exitObs >>
    /\ UNCHANGED notMonitorVars

\* one iteration of the poll loop after its read(): lines 101-111
poll_check ==
    /\ pc = "poll_check"
    /\ lastRead' = ReadRecord(snap, pathIno)
    /\ snap' = NoSnap
    /\ IF ReadOutcome(snap, pathIno) # "Ok"
       THEN /\ Fail(ReadOutcome(snap, pathIno))
            /\ n' = 0
            /\ UNCHANGED << logged, exitObs >>
       ELSE IF PollExit(snap.sd.state)
       THEN /\ pc' = "reset_pread"
            /\ exitObs' = [some |-> TRUE, state |-> snap.sd.state,
                           timed_out |-> n > PollGiveUp,
                           last_event_id |-> snap.sd.last_event_id]
            /\ n' = 0
            /\ UNCHANGED << logged, result >>
       ELSE \* sleep(poll_interval); the message; next n
            /\ logged' = (logged \/ n > PollGiveUp)
            /\ n' = NextN(n)
            /\ pc' = "poll_pread"
            /\ UNCHANGED << result, exitObs >>
    /\ UNCHANGED << shm, pathIno, op, args, td_local, stream,
                    wlog, touched, envSteps, emitted >>
    /\ UNCHANGED notMonitorVars

\* reset_trigger: the rest of read(), then lines 134-137
reset_check ==
    /\ pc = "reset_check"
    /\ lastRead' = ReadRecord(snap, pathIno)
    /\ snap' = NoSnap
    /\ IF ReadOutcome(snap, pathIno) # "Ok"
       THEN /\ Fail(ReadOutcome(snap, pathIno))
            /\ UNCHANGED td_local
       ELSE /\ td_local' = ResetTriggerData(snap.td)
            /\ pc' = "reset_w1"
            /\ UNCHANGED result
    /\ UNCHANGED << shm, pathIno, op, args, n, logged, stream,
                    wlog, touched, envSteps, emitted, exitObs >>
    /\ UNCHANGED notMonitorVars

\* line 138
reset_w1 ==
    /\ pc = "reset_w1"
    /\ shm' = [shm EXCEPT !.td = td_local]
    /\ wlog' = Append(wlog, WriteRec(trigger_data_offset, TriggerDataSize, td_local))
    /\ pc' = "reset_w2"
    /\ UNCHANGED << pathIno, op, args, n, snap, td_local, result, logged, stream,
                    lastRead, touched, envSteps, emitted, exitObs >>
    /\ UNCHANGED notMonitorVars

\* lines 139-140
reset_w2 ==
    /\ pc = "reset_w2"
    /\ td_local' = [td_local EXCEPT !.trigger_state = TriggerCancel]
    /\ shm' = [shm EXCEPT !.td = td_local']
    /\ wlog' = Append(wlog, WriteRec(trigger_data_offset, TriggerDataSize, td_local'))
    /\ pc' = "ret_pread"
    /\ UNCHANGED << pathIno, op, args, n, snap, result, logged, stream,
                    lastRead, touched, envSteps, emitted, exitObs >>
    /\ UNCHANGED notMonitorVars

\* line 114: Ok(self.read()?.shared_data.last_event_id)
ret_check ==
    /\ pc = "ret_check"
    /\ lastRead' = ReadRecord(snap, pathIno)
    /\ snap' = NoSnap
    /\ IF ReadOutcome(snap, pathIno) # "Ok"
       THEN Fail(ReadOutcome(snap, pathIno))
       ELSE /\ result' = Ok(ReturnedEventId(exitObs, snap))
            /\ pc' = "idle"
    /\ UNCHANGED << shm, pathIno, op, args, n, td_local, logged, stream,
                    wlog, touched, envSteps, emitted, exitObs >>
    /\ UNCHANGED notMonitorVars

\* Monitor::is_idle
IsIdle ==
    /\ pc = "idle"
    /\ op' = "is_idle"
    /\ pc' = "idle_pread"
    /\ result' = NoResult
    /\ lastRead' = NoRead
    /\ UNCHANGED << shm, pathIno, args, n, snap, td_local, logged, stream,
                    wlog, touched, envSteps, emitted, exitObs >>
    /\ UNCHANGED notMonitorVars

idle_check ==
    /\ pc = "idle_check"
    /\ lastRead' = ReadRecord(snap, pathIno)
    /\ snap' = NoSnap
    /\ IF ReadOutcome(snap, pathIno) # "Ok"
       THEN Fail(ReadOutcome(snap, pathIno))
       ELSE /\ result' = Ok(snap.sd.state = Idle)
            /\ pc' = "idle"
    /\ UNCHANGED << shm, pathIno, op, args, n, td_local, logged, stream,
                    wlog, touched, envSteps, emitted, exitObs >>
    /\ UNCHANGED notMonitorVars

----------------------------------------------------------------------------
(* The environment: the host (publisher), the file system, other writers    *)

EnvStep == /\ envSteps < MaxEnvSteps
           /\ envSteps' = envSteps + 1

\* the host moves the monitor to another state
PublisherSetState ==
    /\ EnvStep
    /\ \E s \in MonitorStates \ {shm.sd.state} :
          shm' = [shm EXCEPT !.sd.state = s]
    /\ UNCHANGED << pathIno, pc, op, args, n, snap, td_local, result, logged, stream,
                    wlog, lastRead, touched, emitted, exitObs >>
    /\ UNCHANGED notMonitorVars

\* the host creates an event: last_event_id advances
PublisherNewEvent ==
    /\ EnvStep
    /\ shm.sd.last_event_id < MaxEventId
    /\ shm' = [shm EXCEPT !.sd.last_event_id = @ + 1]
    /\ UNCHANGED << pathIno, pc, op, args, n, snap, td_local, result, logged, stream,
                    wlog, lastRead, touched, emitted, exitObs >>
    /\ UNCHANGED notMonitorVars

\* the host shuts the monitor down / brings it up: the valid byte flips
PublisherSetValid ==
    /\ EnvStep
    /\ shm' = [shm EXCEPT !.sd.valid = 1 - @]
    /\ UNCHANGED << pathIno, pc, op, args, n, snap, td_local, result, logged, stream,
                    wlog, lastRead, touched, emitted, exitObs >>
    /\ UNCHANGED notMonitorVars

\* the tmpfs file is deleted, or created again (a new inode: the old one is
\* still held open by the Monitor and cannot be reused)
ReplaceFile ==
    /\ EnvStep
    /\ pathIno' = IF pathIno = NoIno THEN NewIno ELSE NoIno
    /\ UNCHANGED << shm, pc, op, args, n, snap, td_local, result, logged, stream,
                    wlog, lastRead, touched, emitted, exitObs >>
    /\ UNCHANGED notMonitorVars

\* the file is replaced in one step (rename over the path)
RenameOver ==
    /\ EnvStep
    /\ pathIno = Ino
    /\ pathIno' = NewIno
    /\ UNCHANGED << shm, pc, op, args, n, snap, td_local, result, logged, stream,
                    wlog, lastRead, touched, emitted, exitObs >>
    /\ UNCHANGED notMonitorVars

\* another writer of TriggerData (the host's trigger interface) sets trigger_state
OtherWriter ==
    /\ EnvStep
    /\ \E ts \in TriggerStates \ {shm.td.trigger_state} :
          shm' = [shm EXCEPT !.td.trigger_state = ts]
    /\ touched' = TRUE
    /\ UNCHANGED << pathIno, pc, op, args, n, snap, td_local, result, logged, stream,
                    wlog, lastRead, emitted, exitObs >>
    /\ UNCHANGED notMonitorVars

----------------------------------------------------------------------------
(* Monitor::stream_images and ImageStream  (src/src/zoneminder.rs 67-89,    *)
(* 223-305)                                                                 *)

\* A u32 is kept as its two 16-bit halves (TLC's integers are 32-bit signed).
U32(x) == [hi |-> x \div 65536, lo |-> x % 65536]
U32Less(a, b) == a.hi < b.hi \/ (a.hi = b.hi /\ a.lo < b.lo)

\* `x as u32` of an i32: x for x >= 0, x + 2^32 for x < 0
AsU32(x) ==
    IF x >= 0 THEN U32(x)
    ELSE [hi |-> 32768 + ((x + 2147483647 + 1) \div 65536),
          lo |-> (x + 2147483647 + 1) % 65536]

\* zm_format_to_cv_format: channels of the Mat that is allocated
Channels(format) ==
    IF format = SPO_NONE THEN 1
    ELSE IF format \in {SPO_RGB, SPO_BGR} THEN 3
    ELSE 4

\* convert_to_rgb: the formats its match handles without panicking
Convertible(format) == format \in {SPO_NONE, SPO_RGB, SPO_BGR, SPO_BGRA, SPO_RGBA}

\* a test that forgets the sentinel
FrameReady_NoSentinel(w, last_read_index, image_buffer_count) ==
    w # last_read_index

\* the test of wait_for_image, lines 265-266
FrameReady(w, last_read_index, image_buffer_count) ==
    w # last_read_index /\ w # image_buffer_count

\* a stream that hands out the oldest unread slot instead
SlotToRead_OldestUnread(w, last_read_index, image_buffer_count) ==
    IF last_read_index = image_buffer_count THEN U32(0)
    ELSE U32((last_read_index.lo + 1) % image_buffer_count.lo)

\* wait_for_image lines 268-269: the slot that is remembered and read is the
\* last_write_index of this iteration's read()
SlotToRead(w, last_read_index, image_buffer_count) == w

NoStream == [open |-> FALSE]

\* Monitor::stream_images
StreamImages ==
    /\ pc = "idle"
    /\ ~stream.open
    /\ op' = "stream_images"
    /\ pc' = "si_pread"
    /\ result' = NoResult
    /\ lastRead' = NoRead
    /\ UNCHANGED << shm, pathIno, args, n, snap, td_local, logged, stream,
                    wlog, touched, envSteps, emitted, exitObs >>
    /\ UNCHANGED notMonitorVars

si_check ==
    /\ pc = "si_check"
    /\ lastRead' = ReadRecord(snap, pathIno)
    /\ snap' = NoSnap
    /\ IF ReadOutcome(snap, pathIno) # "Ok"
       THEN /\ Fail(ReadOutcome(snap, pathIno))
            /\ UNCHANGED stream
       ELSE /\ stream' = [open |-> TRUE,
                          width |-> FrameWidth,
                          height |-> FrameHeight,
                          image_buffer_count |-> U32(ImageBufferCount),
                          last_read_index |-> U32(ImageBufferCount),
                          image_size |-> snap.sd.imagesize,
                          format |-> snap.sd.format]
            /\ result' = Ok("ImageStream")
            /\ pc' = "idle"
    /\ UNCHANGED << shm, pathIno, op, args, n, td_local, logged,
                    wlog, touched, envSteps, emitted, exitObs >>
    /\ UNCHANGED notMonitorVars

\* ImageStream::next -> wait_for_image.  The stream is consumed by
\* `for image in stream_images()? { let image = image?; ... }` (main.rs
\* 269-270, 336-337): the first Err ends the iteration.
StreamNext ==
    /\ pc = "idle"
    /\ stream.open
    /\ result.kind # "Err"
    /\ op' = "next"
    /\ pc' = "wait_pread"
    /\ result' = NoResult
    /\ lastRead' = NoRead
    /\ UNCHANGED << shm, pathIno, args, n, snap, td_local, logged, stream,
                    wlog, touched, envSteps, emitted, exitObs >>
    /\ UNCHANGED notMonitorVars

\* one iteration of the loop of wait_for_image after its read(): lines 264-272
wait_check ==
    /\ pc = "wait_check"
    /\ lastRead' = ReadRecord(snap, pathIno)
    /\ snap' = NoSnap
    /\ IF ReadOutcome(snap, pathIno) # "Ok"
       THEN /\ Fail(ReadOutcome(snap, pathIno))
            /\ UNCHANGED stream
       ELSE IF FrameReady(AsU32(snap.sd.last_write_index), stream.last_read_index,
                          stream.image_buffer_count)
       THEN /\ stream' = [stream EXCEPT
                             !.last_read_index =
                                 SlotToRead(AsU32(snap.sd.last_write_index),
                                            stream.last_read_index,
                                            stream.image_buffer_count)]
            /\ pc' = "img_check"
            /\ UNCHANGED result
       ELSE \* sleep 5 ms, loop
            /\ pc' = "wait_pread"
            /\ UNCHANGED << stream, result >>
    /\ UNCHANGED << shm, pathIno, op, args, n, td_local, logged,
                    wlog, touched, envSteps, emitted, exitObs >>
    /\ UNCHANGED notMonitorVars

\* read_image line 277 (the assertion), read_image_into line 290 (the stale check)
img_check ==
    /\ pc = "img_check"
    /\ IF stream.width * stream.height * 4 # stream.image_size
       THEN /\ pc' = "panicked"
            /\ UNCHANGED result
       ELSE IF CheckFileStale(pathIno) # "Ok"
       THEN Fail(CheckFileStale(pathIno))
       ELSE /\ pc' = "img_read"
            /\ UNCHANGED result
    /\ UNCHANGED << shm, pathIno, op, args, n, snap, td_local, logged, stream,
                    wlog, lastRead, touched, envSteps, emitted, exitObs >>
    /\ UNCHANGED notMonitorVars

\* read_image_into lines 291-294 (read_exact_at at the slot), then
\* convert_to_rgb and the return of wait_for_image.  A slot index beyond the
\* ring addresses bytes past the ring: whether the file has them is the
\* host's layout, so the read either fails or yields a frame.
img_read ==
    /\ pc = "img_read"
    /\ \E in_file \in BOOLEAN :
          /\ U32Less(stream.last_read_index, stream.image_buffer_count) => in_file
          /\ IF ~in_file
             THEN /\ Fail("IoError")
                  /\ UNCHANGED emitted
             ELSE IF ~Convertible(stream.format)
             THEN /\ pc' = "panicked"
                  /\ UNCHANGED << result, emitted >>
             ELSE /\ result' = Ok("Mat")
                  /\ pc' = "idle"
                  /\ emitted' = IF Len(emitted) < 2
                                THEN Append(emitted, stream.last_read_index)
                                ELSE << emitted[2], stream.last_read_index >>
    /\ UNCHANGED << shm, pathIno, op, args, n, snap, td_local, logged, stream,
                    wlog, lastRead, touched, envSteps, exitObs >>
    /\ UNCHANGED notMonitorVars

\* the host stores a frame and publishes its slot in last_write_index (an i32)
WriteIndexValues == {-1} \cup (0 .. ImageBufferCount + 1)

PublisherFrame ==
    /\ \E w \in WriteIndexValues \ {shm.sd.last_write_index} :
          shm' = [shm EXCEPT !.sd.last_write_index = w]
    /\ UNCHANGED << pathIno, pc, op, args, n, snap, td_local, result, logged, stream,
                    wlog, lastRead, touched, envSteps, emitted, exitObs >>
    /\ UNCHANGED notMonitorVars

----------------------------------------------------------------------------
(* The layout resolver and MonitorShm  (src/src/zoneminder/shm.rs 13-303)   *)

\* most fields a declared SharedData struct has in the model
MaxFields == 3

\* struct Type {size, alignment}; Type::new::<T>() on x86-64 Linux
Type(size, alignment) == [size |-> size, alignment |-> alignment]

\* Type::array_of
array_of(t, num_elements) == Type(t.size * num_elements, t.alignment)

\* a typename of Memory.pm: `basic` or `basic[elements]`
Typename(basic, is_array, elements) ==
    [basic |-> basic, is_array |-> is_array, elements |-> elements]

parse_basic_typename(typename) ==
    CASE typename \in {"uint8", "int8"} -> Type(1, 1)
      [] typename \in {"uint32", "int32", "float"} -> Type(4, 4)
      [] typename \in {"uint64", "int64", "double", "time_t64"} -> Type(8, 8)

parse_typename(typename) ==
    IF typename.is_array
    THEN array_of(parse_basic_typename(typename.basic), typename.elements)
    ELSE parse_basic_typename(typename.basic)

\* one `name => { type=>'..' }` line
parse_field_definition(line) ==
    [name |-> line.name, typ |-> parse_typename(line.typename)]

\* one struct definition: its type name and its field lines
parse_struct_definition(def) ==
    [name |-> def.name,
     fields |-> [i \in 1..Len(def.fields) |-> parse_field_definition(def.fields[i])]]

\* an align_to that rounds down
align_to_Down(offset, alignment) == offset - (offset % alignment)

align_to(offset, alignment) ==
    IF offset % alignment = 0
    THEN offset
    ELSE offset + alignment - (offset % alignment)

\* the loop of ParsedStruct::calculate_offsets from field i on
RECURSIVE CalculateFrom(_, _, _, _)
CalculateFrom(pfields, i, offset, fields) ==
    IF i > Len(pfields)
    THEN [size |-> offset, fields |-> fields]
    ELSE LET field == [name |-> pfields[i].name,
                       offset |-> align_to(offset, pfields[i].typ.alignment),
                       typ |-> pfields[i].typ]
         IN CalculateFrom(pfields, i + 1, field.offset + field.typ.size,
                          Append(fields, field))

calculate_offsets(ps) ==
    [name |-> ps.name,
     size |-> CalculateFrom(ps.fields, 1, 0, << >>).size,
     fields |-> CalculateFrom(ps.fields, 1, 0, << >>).fields]

\* format!("{}::{}", s.name, f.name)
Qualified(struct_name, field_name) == << struct_name, field_name >>

\* fields.extend(..) of parse_memory_pm for the structs from i on
RECURSIVE ExtendFrom(_, _, _)
ExtendFrom(defs, i, fields) ==
    IF i > Len(defs) THEN fields
    ELSE LET st == parse_struct_definition(defs[i])
         IN ExtendFrom(defs, i + 1,
               fields \o [k \in 1..Len(st.fields) |->
                            [name |-> Qualified(st.name, st.fields[k].name),
                             typ |-> st.fields[k].typ]])

VideoStoreSize == Qualified("VideoStoreData", "size")

\* a parse_memory_pm that does not add VideoStoreData::size
parse_memory_pm_NoVideoStore(input) ==
    [name |-> "memory", fields |-> ExtendFrom(input, 1, << >>)]

parse_memory_pm(input) ==
    [name |-> "memory",
     fields |-> Append(ExtendFrom(input, 1, << >>),
                       [name |-> VideoStoreSize, typ |-> Type(4, 4)])]

read_memory_pm(input) == calculate_offsets(parse_memory_pm(input))

\* LAYOUT before its first use
Unresolved == [resolved |-> FALSE, name |-> "memory", size |-> 0, fields |-> << >>]

\* MonitorShm::lookup_field: index of the first field of that name, 0 if none
lookup_field(layout, name) ==
    IF \E i \in 1..Len(layout.fields) : layout.fields[i].name = name
    THEN CHOOSE i \in 1..Len(layout.fields) :
            /\ layout.fields[i].name = name
            /\ \A j \in 1..(i - 1) : layout.fields[j].name # name
    ELSE 0

\* a typecheck that compares the sizes only
typecheck_SizeOnly(field, typ) == field.typ.size = typ.size

\* MonitorShm::typecheck: TRUE when it returns, FALSE when it panics
typecheck(field, typ) == ~(field.typ # typ)

NoIo == [some |-> FALSE]
Io(offset, len) == [some |-> TRUE, offset |-> offset, len |-> len]

\* read_field / write_field up to the positional I/O
TypedAccess(layout, name, typ) ==
    LET i == lookup_field(layout, name) IN
    IF i = 0 THEN [outcome |-> "PanicNotFound", io |-> NoIo]
    ELSE IF ~typecheck(layout.fields[i], typ)
         THEN [outcome |-> "PanicMismatch", io |-> NoIo]
         ELSE [outcome |-> "Ok", io |-> Io(layout.fields[i].offset, typ.size)]

\* write_all_at(bytes, offset)
WriteAllAt(f, bytes, offset) ==
    [j \in 1..Len(f) |->
        IF j > offset /\ j <= offset + Len(bytes) THEN bytes[j - offset] ELSE f[j]]

\* a terminated string without its terminator
TerminatedBytes_NoTerminator(value) == value

\* s.push_str(value); s.push('\0')
TerminatedBytes(value) == Append(value, 0)

\* write_string up to the positional write
StringAccess(layout, name, value) ==
    LET i == lookup_field(layout, name)
        terminated_len == Len(value) + 1
    IN
    IF i = 0 THEN [outcome |-> "PanicNotFound", io |-> NoIo]
    ELSE IF ~(layout.fields[i].typ.size >= terminated_len)
         THEN [outcome |-> "PanicAssert", io |-> NoIo]
         ELSE [outcome |-> "Ok",
               io |-> Io(layout.fields[i].offset, Len(TerminatedBytes(value)))]

NoAccess == [op |-> "none"]

\* the struct definitions the resolver is run on
SharedTypenames ==
    { Typename("uint32", FALSE, 0), Typename("time_t64", FALSE, 0),
      Typename("int8", TRUE, 64) }
SharedFieldNames == << "size", "startup_time", "audio_fifo", "valid", "format" >>
SharedStructs ==
    UNION { { [name |-> "SharedData",
               fields |-> [i \in 1..k |->
                             [name |-> SharedFieldNames[i], typename |-> t[i]]]]
              : t \in [1..k -> SharedTypenames] }
            : k \in 1..MaxFields }
TriggerStructs ==
    { [name |-> "TriggerData", fields |-> f] : f \in
        { << [name |-> "size", typename |-> Typename("uint32", FALSE, 0)],
             [name |-> "trigger_cause", typename |-> Typename("int8", TRUE, 32)] >>,
          << [name |-> "size", typename |-> Typename("uint32", FALSE, 0)],
             [name |-> "trigger_state", typename |-> Typename("uint32", FALSE, 0)],
             [name |-> "trigger_text", typename |-> Typename("int8", TRUE, 5)] >>,
          << [name |-> "trigger_score", typename |-> Typename("double", FALSE, 0)] >>,
          << [name |-> "trigger_cause", typename |-> Typename("uint8", TRUE, 3)],
             [name |-> "size", typename |-> Typename("uint32", FALSE, 0)] >> } }
Descriptors == { << sd, td >> : sd \in SharedStructs, td \in TriggerStructs }

\* the T of read_field::<T> / write_field::<T>: u32, [u8; 4], u64, [u8; 32]
AccessTypes == { Type(4, 4), Type(4, 1), Type(8, 8), Type(32, 1) }
\* the &str of write_string, as bytes
AccessStrings ==
    { << >>, << 97, 98, 99 >>, << 97, 98, 99, 100 >>,
      [i \in 1..31 |-> 97], [i \in 1..32 |-> 97] }
AccessNames ==
    { LAYOUT.fields[i].name : i \in 1..Len(LAYOUT.fields) }
        \cup { Qualified("SharedData", "no_such_field") }

\* first use of LAYOUT: read_memory_pm on Memory.pm; the mapped file is the
\* region the host laid out, here with no zero byte in it
ResolveLayout ==
    /\ pc = "layout"
    /\ ~LAYOUT.resolved
    /\ LAYOUT' = [resolved |-> TRUE] @@ read_memory_pm(memory_pm)
    /\ file' = [j \in 1..read_memory_pm(memory_pm).size |-> 1 + (j % 5)]
    /\ UNCHANGED << memory_pm, access >>
    /\ UNCHANGED notLayoutVars

\* MonitorShm::read_field::<T>(name)
read_field(name, typ) ==
    /\ pc = "layout"
    /\ LAYOUT.resolved
    /\ access = NoAccess
    /\ access' = [op |-> "read_field", name |-> name, typ |-> typ, before |-> file]
                    @@ TypedAccess(LAYOUT, name, typ)
    /\ UNCHANGED << memory_pm, LAYOUT, file >>
    /\ UNCHANGED notLayoutVars

\* MonitorShm::write_field::<T>(name, value)
write_field(name, typ) ==
    /\ pc = "layout"
    /\ LAYOUT.resolved
    /\ access = NoAccess
    /\ access' = [op |-> "write_field", name |-> name, typ |-> typ, before |-> file]
                    @@ TypedAccess(LAYOUT, name, typ)
    /\ file' = IF TypedAccess(LAYOUT, name, typ).outcome = "Ok"
               THEN WriteAllAt(file, [j \in 1..typ.size |-> 200],
                               TypedAccess(LAYOUT, name, typ).io.offset)
               ELSE file
    /\ UNCHANGED << memory_pm, LAYOUT >>
    /\ UNCHANGED notLayoutVars

\* MonitorShm::write_string(name, value)
write_string(name, value) ==
    /\ pc = "layout"
    /\ LAYOUT.resolved
    /\ access = NoAccess
    /\ access' = [op |-> "write_string", name |-> name, value |-> value,
                  before |-> file] @@ StringAccess(LAYOUT, name, value)
    /\ file' = IF StringAccess(LAYOUT, name, value).outcome = "Ok"
               THEN WriteAllAt(file, TerminatedBytes(value),
                               StringAccess(LAYOUT, name, value).io.offset)
               ELSE file
    /\ UNCHANGED << memory_pm, LAYOUT >>
    /\ UNCHANGED notLayoutVars

ReadField == \E name \in AccessNames, typ \in AccessTypes : read_field(name, typ)
WriteField == \E name \in AccessNames, typ \in AccessTypes : write_field(name, typ)
WriteString == \E name \in AccessNames, value \in AccessStrings : write_string(name, value)

----------------------------------------------------------------------------
(* The image ring offset of Monitor::stream_images (zoneminder.rs 72-77)    *)

\* largest Monitors.ImageBufferCount the offset is computed for
MaxConfiguredBuffers == 15
\* size_of::<libc::timeval>() on x86-64 Linux
TimevalSize == 16
\* the alignment of the image ring, line 77
RingAlignment == 64
\* size_of::<shm::MonitorVideoStoreData>(): sizes the struct may have
VideoStoreDataSizes == { 4, 8, 24, 4128 }

\* line 49: videostore_data_offset
videostore_data_offset == trigger_data_offset + TriggerDataSize

NoOffset == [some |-> FALSE]

\* lines 75-77: the two assignments of shared_images_offset
ImagesOffset(timestamps_offset, count) ==
    LET offset == timestamps_offset + count * TimevalSize
    IN offset + RingAlignment - (offset % RingAlignment)

\* lines 72-77 of stream_images, after the config query
ComputeImagesOffset ==
    /\ pc = "offsets"
    /\ ~shared_images_offset.some
    /\ shared_images_offset' =
          [some |-> TRUE,
           value |-> ImagesOffset(shared_timestamps_offset, config.image_buffer_count)]
    /\ UNCHANGED << config, shared_timestamps_offset >>
    /\ UNCHANGED notOffsetVars

----------------------------------------------------------------------------
(* ThreadedWatchdog and the main loop  (src/src/main.rs 312-313, 336-385,    *)
(* 521-544).  Time advances in steps of one target_interval (1 / max_fps).  *)

\* the timeout is 20 target intervals: Duration::from_secs_f32(20.0 / max_fps)
WatchdogFactor == 20
\* most messages waiting in the channel
MaxQueued == 2

\* a receive that looks at the deadline before it looks at the channel
RecvTimeout_TimeoutFirst(queued, waited) ==
    IF waited >= WatchdogFactor THEN "Timeout"
    ELSE IF queued > 0 THEN "Ok"
    ELSE "Waiting"

\* what rx.recv_timeout(timeout) answers once it answers: a message that is
\* in the channel is received, also when the deadline has passed meanwhile
RecvTimeout(queued, waited) ==
    IF queued > 0 THEN "Ok"
    ELSE IF waited >= WatchdogFactor THEN "Timeout"
    ELSE "Waiting"

\* a loop body that ignores the timeout
OnRecv_Ignore(r) == "loop"

\* the body of the watchdog thread's loop, lines 530-533
OnRecv(r) == IF r = "Timeout" THEN "exit" ELSE "loop"

NoExitCode == [some |-> FALSE]

\* line 381: watchdog.reset() at the end of an iteration of the main loop
WatchdogReset ==
    /\ pc = "watchdog"
    /\ main_loop = "running"
    /\ ~exit_code.some
    /\ watchdog.queued < MaxQueued
    /\ watchdog' = [watchdog EXCEPT !.queued = @ + 1, !.since_reset = 0]
    /\ UNCHANGED << main_loop, exit_code >>
    /\ UNCHANGED notWatchdogVars

\* the main loop stops coming round: the ImageStream polls for ever because
\* the host no longer advances last_write_index, or the detector hangs
MainLoopStalls ==
    /\ pc = "watchdog"
    /\ main_loop = "running"
    /\ ~exit_code.some
    /\ main_loop' = "stalled"
    /\ UNCHANGED << watchdog, exit_code >>
    /\ UNCHANGED notWatchdogVars

\* a duration of the model, counted up to the timeout
Later(t) == IF t < WatchdogFactor THEN t + 1 ELSE t

\* one target_interval passes: for the watchdog thread in (or on its way out
\* of) recv_timeout, and for the main thread since its last reset()
Tick ==
    /\ pc = "watchdog"
    /\ ~exit_code.some
    /\ watchdog' = [watchdog EXCEPT !.waited = Later(@), !.since_reset = Later(@)]
    /\ UNCHANGED << main_loop, exit_code >>
    /\ UNCHANGED notWatchdogVars

\* recv_timeout returns and the loop body runs, lines 530-533
WatchdogThread ==
    /\ pc = "watchdog"
    /\ ~exit_code.some
    /\ RecvTimeout(watchdog.queued, watchdog.waited) # "Waiting"
    /\ IF OnRecv(RecvTimeout(watchdog.queued, watchdog.waited)) = "exit"
       THEN /\ exit_code' = [some |-> TRUE, code |-> 1]
            /\ UNCHANGED watchdog
       ELSE /\ watchdog' =
                 [watchdog EXCEPT
                     !.queued = IF @ > 0 THEN @ - 1 ELSE 0,
                     !.waited = 0,
                     !.late = watchdog.waited >= WatchdogFactor]
            /\ UNCHANGED exit_code
    /\ UNCHANGED main_loop
    /\ UNCHANGED notWatchdogVars

----------------------------------------------------------------------------
(* infer: the post-filter of the detector's output  (src/src/main.rs        *)
(* 214-250, CLASSES 291-299)                                                *)

\* longest list of detections the detector returns
MaxYolo == 2
\* the zone's MinArea when it is set
ZoneMinArea == 6

\* the keys of CLASSES
CLASSES == { 1, 3, 15, 16, 17 }

\* detections of YoloV4Tiny::infer, in the coordinates of the cropped image;
\* the areas are 0, MinArea - 1, MinArea and 2 * MinArea
YoloDetections ==
    { [class_id |-> c, confidence |-> 5000,
       bounding_box |-> [x |-> 1, y |-> 2, width |-> wh[1], height |-> wh[2]]] :
         c \in { 1, 2, 17 },
         wh \in { << 0, 5 >>, << 1, ZoneMinArea - 1 >>, << 1, ZoneMinArea >>,
                  << 2, ZoneMinArea >> } }

\* Option::unwrap_or
unwrap_or(opt, default) == IF opt.some THEN opt.value ELSE default

\* lines 228-244: the two filters and the map of infer
PostFilter(detections, zone_box, min_area) ==
    LET kept == SelectSeq(detections, LAMBDA d :
                   /\ d.class_id \in CLASSES
                   /\ d.bounding_box.width * d.bounding_box.height
                         > unwrap_or(min_area, 0))
    IN [ i \in 1..Len(kept) |->
           [kept[i] EXCEPT !.bounding_box.x = @ + zone_box.x,
                           !.bounding_box.y = @ + zone_box.y] ]

\* infer, after yolo.infer returned
Infer ==
    /\ pc = "infer"
    /\ ~inferred.done
    /\ inferred' = [inferred EXCEPT
          !.done = TRUE,
          !.detections = PostFilter(inferred.yolo, inferred.bounding_box,
                                    inferred.min_area)]
    /\ UNCHANGED << dbzone, zone_config, pacemaker, paced, run >>
    /\ UNCHANGED << regionVars, trackerVars >>

----------------------------------------------------------------------------
(* ZoneConfig::parse and Bounding::bounding_box  (src/src/zoneminder/db.rs   *)
(* 187-278).  A string is a sequence of symbols: " ", "=", ",", "+", "-",   *)
(* the digits, and words of letters.                                        *)

\* most option tokens in a zone's Name
MaxTokens == 3
\* most points in a zone's Coords
MaxPoints == 3

DigitChars == << "0", "1", "2", "3", "4", "5", "6", "7", "8", "9" >>

\* str::split_ascii_whitespace: the maximal runs without " "
RECURSIVE SplitFrom(_, _, _, _)
SplitFrom(str, i, cur, acc) ==
    IF i > Len(str) THEN (IF cur = << >> THEN acc ELSE Append(acc, cur))
    ELSE IF str[i] = " "
         THEN SplitFrom(str, i + 1, << >>,
                        IF cur = << >> THEN acc ELSE Append(acc, cur))
         ELSE SplitFrom(str, i + 1, Append(cur, str[i]), acc)

split_ascii_whitespace(str) == SplitFrom(str, 1, << >>, << >>)

\* str::split_once: around the first occurrence of the delimiter
split_once(str, delimiter) ==
    LET at == { i \in 1..Len(str) : str[i] = delimiter }
    IN IF at = {} THEN None
       ELSE LET k == CHOOSE i \in at : \A j \in at : i <= j
            IN [some |-> TRUE, key |-> SubSeq(str, 1, k - 1),
                value |-> SubSeq(str, k + 1, Len(str))]

\* the value of a run of digits (runs of at most 9 digits: all fit an i32)
RECURSIVE DigitsValue(_, _, _)
DigitsValue(str, i, acc) ==
    IF i > Len(str) THEN acc
    ELSE DigitsValue(str, i + 1,
            acc * 10 + (CHOOSE k \in 0..9 : DigitChars[k + 1] = str[i]))

\* str::parse::<u32>() (signed = FALSE) and ::<i32>() (signed = TRUE), .ok():
\* an optional "+" (or "-" when signed), then at least one digit
parse_int(str, signed) ==
    LET signs == IF signed THEN { "+", "-" } ELSE { "+" }
        body == IF str # << >> /\ str[1] \in signs THEN Tail(str) ELSE str
    IN IF body = << >>
          \/ \E i \in 1..Len(body) : \A k \in 1..10 : DigitChars[k] # body[i]
       THEN None
       ELSE [some |-> TRUE,
             value |-> IF str[1] = "-" THEN 0 - DigitsValue(body, 1, 0)
                       ELSE DigitsValue(body, 1, 0)]

\* a HashMap that takes the value of the first of equal keys
collect_First(pairs) ==
    [ key \in { pairs[i].key : i \in 1..Len(pairs) } |->
        pairs[CHOOSE i \in 1..Len(pairs) :
                 /\ pairs[i].key = key
                 /\ \A j \in 1..Len(pairs) : pairs[j].key = key => i <= j].value ]

\* Iterator::collect into a HashMap: a later pair replaces an earlier one of
\* the same key
collect(pairs) ==
    [ key \in { pairs[i].key : i \in 1..Len(pairs) } |->
        pairs[CHOOSE i \in 1..Len(pairs) :
                 /\ pairs[i].key = key
                 /\ \A j \in 1..Len(pairs) : pairs[j].key = key => j <= i].value ]

\* lines 246-267.  threshold is the f32 v / 100.0, kept as [num, den]; the
\* f32 parse is modelled for the decimal integers with an optional sign.
parse_zone_name(zone_name) ==
    LET tokens == split_ascii_whitespace(zone_name)
        items == IF tokens = << >> THEN << >> ELSE Tail(tokens)
        split == [ i \in 1..Len(items) |-> split_once(items[i], "=") ]
        keys == collect(SelectSeq(split, LAMBDA x : x.some))
        get_int(key) == IF << key >> \in DOMAIN keys
                        THEN parse_int(keys[<< key >>], FALSE) ELSE None
        v == IF << "Threshold" >> \in DOMAIN keys
             THEN parse_int(keys[<< "Threshold" >>], TRUE) ELSE None
    IN [ shape |-> << >>,
         threshold |-> IF v.some
                       THEN [some |-> TRUE, num |-> v.value, den |-> 100]
                       ELSE None,
         size |-> get_int("Size"),
         trigger |-> get_int("Trigger"),
         fps |-> get_int("FPS"),
         min_area |-> get_int("MinArea") ]

\* the thread panicked in an unwrap()
Panicked == [panicked |-> TRUE]

\* lines 269-277: panics when a coordinate does not parse (the unwrap of 270)
parse_zone_coords(coords) ==
    LET points == split_ascii_whitespace(coords)
        split == [ i \in 1..Len(points) |-> split_once(points[i], ",") ]
        pairs == SelectSeq(split, LAMBDA x : x.some)
    IN IF \E i \in 1..Len(pairs) : ~parse_int(pairs[i].key, TRUE).some
                                   \/ ~parse_int(pairs[i].value, TRUE).some
       THEN Panicked
       ELSE [panicked |-> FALSE,
             shape |-> [ i \in 1..Len(pairs) |->
                          << parse_int(pairs[i].key, TRUE).value,
                             parse_int(pairs[i].value, TRUE).value >> ]]

\* lines 193-209; the unwrap of min() panics on an empty shape
bounding_box(shape) ==
    IF shape = << >> THEN Panicked
    ELSE LET xs == { shape[i][1] : i \in 1..Len(shape) }
             ys == { shape[i][2] : i \in 1..Len(shape) }
             min(S) == CHOOSE v \in S : \A w \in S : v <= w
             max(S) == CHOOSE v \in S : \A w \in S : v >= w
         IN [panicked |-> FALSE, x |-> min(xs), y |-> min(ys),
             width |-> max(xs) - min(xs), height |-> max(ys) - min(ys)]

\* lines 233-244 and main.rs 175: ZoneConfig::parse on the row, then
\* zone_config.shape.bounding_box() in connect_zm
ParseZone ==
    /\ pc = "zone"
    /\ zone_config.state = "none"
    /\ zone_config' =
         IF parse_zone_coords(dbzone.Coords).panicked
         THEN [state |-> "panicked"]
         ELSE LET shape == parse_zone_coords(dbzone.Coords).shape
              IN IF bounding_box(shape).panicked
                 THEN [state |-> "panicked"]
                 ELSE [state |-> "parsed",
                       config |-> [parse_zone_name(dbzone.Name)
                                      EXCEPT !.shape = shape],
                       bounding_box |-> bounding_box(shape)]
    /\ UNCHANGED << dbzone, inferred, pacemaker, paced, run >>
    /\ UNCHANGED << regionVars, trackerVars >>

----------------------------------------------------------------------------
(* RealtimePacemaker  (src/src/main.rs 473-515).  Durations are integers;   *)
(* an average or a sleep is the exact fraction [num, den].                  *)

\* target_interval = 1 / frequency, in time units
TargetInterval == 4
\* the workloads that keep up are 1..MaxWorkload
MaxWorkload == 1
\* the window of NoSumSMA<f32, f32, 10>
SmaWindow == 10

\* how long the paced workload may run between two ticks: shorter than the
\* target interval, or longer
Workloads == (1..MaxWorkload) \cup { TargetInterval + 2 }

\* NoSumSMA::add_sample: the newest SmaWindow samples are kept
add_sample(samples, sample) ==
    IF Len(samples) < SmaWindow THEN Append(samples, sample)
    ELSE Append(Tail(samples), sample)

RECURSIVE SumSeq(_)
SumSeq(samples) ==
    IF samples = << >> THEN 0 ELSE samples[1] + SumSeq(Tail(samples))

\* no smoothing: the newest sample
get_average_Last(samples) ==
    [num |-> samples[Len(samples)], den |-> 1]

\* NoSumSMA::get_average: the sum of the samples over their number
get_average(samples) ==
    [num |-> SumSeq(samples), den |-> Len(samples)]

NewPacemaker == [last_tick |-> FALSE, avg |-> << >>]

\* lines 492-510, called when the workload took frame_duration since last_tick
tick(frame_duration) ==
    /\ pc = "pacemaker"
    /\ IF pacemaker.last_tick
       THEN LET avg == add_sample(pacemaker.avg, frame_duration)
                average_duration == get_average(avg)
                \* target_interval - average_duration, over the same denominator
                sleep_duration ==
                    [num |-> TargetInterval * average_duration.den
                                - average_duration.num,
                     den |-> average_duration.den]
                slept == IF sleep_duration.num > 0 THEN sleep_duration
                         ELSE [num |-> 0, den |-> 1]
            IN /\ pacemaker' = [last_tick |-> TRUE, avg |-> avg]
               /\ paced' = [ticks |-> IF paced.ticks < SmaWindow + 1
                                      THEN paced.ticks + 1 ELSE paced.ticks,
                            workloads |-> IF Len(paced.workloads) < SmaWindow
                                          THEN Append(paced.workloads, frame_duration)
                                          ELSE Append(Tail(paced.workloads),
                                                      frame_duration),
                            sampled |-> TRUE,
                            slept |-> slept,
                            tick_interval |->
                                [num |-> frame_duration * slept.den + slept.num,
                                 den |-> slept.den]]
       ELSE /\ pacemaker' = [pacemaker EXCEPT !.last_tick = TRUE]
            /\ paced' = [paced EXCEPT !.ticks = 1]
    /\ UNCHANGED << inferred, dbzone, zone_config, run >>
    /\ UNCHANGED << regionVars, trackerVars >>

PacemakerTick == \E frame_duration \in Workloads : tick(frame_duration)

----------------------------------------------------------------------------
(* main and run  (src/src/main.rs 67-86, 165-207, 301-387), the threads of  *)
(* ThreadedWatchdog::new (529-534) and spawn_prometheus_client              *)
(* (src/src/instrumentation.rs 24-32).  The host, the config store and the  *)
(* detector answer each call with any of their outcomes.                    *)

\* what the process finds at start-up
StartEnvs ==
    [ conf : { "ok", "unreadable", "missing_key" },  \* /etc/zm/zm.conf
      mmap : BOOLEAN,         \* the monitor's zm.mmap file can be opened
      db : BOOLEAN,           \* the database accepts the connection
      zone_rows : 0..1,       \* rows of Zones with a Name like aidect%
      fps : BOOLEAN,          \* an analysis FPS limit is set
      yolo : BOOLEAN,         \* the network's files load
      monitor_id : { 1, 6 } ]

\* a zone query that unwraps the row it expects
get_zone_config_Unwrap(env) ==
    IF ~env.db THEN [ok |-> FALSE, panicked |-> FALSE, text |-> "db", id |-> 0]
    ELSE IF env.zone_rows = 0
    THEN [ok |-> FALSE, panicked |-> TRUE, text |-> "unwrap on None", id |-> 0]
    ELSE [ok |-> TRUE]

\* db.rs 222-237: the connection, the query, ok_or(anyhow!(..)) on no row
get_zone_config(env) ==
    IF ~env.db THEN [ok |-> FALSE, panicked |-> FALSE, text |-> "db", id |-> 0]
    ELSE IF env.zone_rows = 0
    THEN [ok |-> FALSE, panicked |-> FALSE,
          text |-> "No aidect zone found for monitor", id |-> env.monitor_id]
    ELSE [ok |-> TRUE]

\* run 302-303 and connect_zm 165-207, in the order of the calls: what it
\* returns, and whether ml::YoloV4Tiny::new was reached
StartUp(env) ==
    LET Failed(text, id, yolo) == [ok |-> FALSE, panicked |-> FALSE, text |-> text,
                                id |-> id, yolo |-> yolo]
    IN IF env.conf = "unreadable" THEN Failed("zm.conf", 0, FALSE)
       ELSE IF env.conf = "missing_key"       \* keys["ZM_DB_HOST"] panics
       THEN [Failed("missing key", 0, FALSE) EXCEPT !.panicked = TRUE]
       ELSE IF ~env.mmap THEN Failed("mmap", 0, FALSE)
       ELSE IF ~get_zone_config(env).ok
       THEN get_zone_config(env) @@ [yolo |-> FALSE]
       ELSE IF ~env.db THEN Failed("db", 0, FALSE)
       ELSE IF ~env.fps THEN Failed("No analysis FPS limit set", 0, FALSE)
       ELSE IF ~env.yolo THEN Failed("yolo", 0, TRUE)
       ELSE [ok |-> TRUE, panicked |-> FALSE, text |-> "", id |-> 0,
             yolo |-> TRUE]

\* the exit status of the process: main returns Result<()>, a panic of the
\* main thread ends it with 101
ExitStatus(ok, panicked) ==
    IF panicked THEN 101 ELSE IF ok THEN 0 ELSE 1

\* what the closure of a spawned thread captures (main.rs 529, 527;
\* instrumentation.rs 25-26); the main thread owns the MonitorContext
Captures_MetricsMonitor(thread) ==
    IF thread = "watchdog" THEN { "rx", "timeout" }
    ELSE { "address", "port", "monitor" }

Captures(thread) ==
    IF thread = "watchdog" THEN { "rx", "timeout" }
    ELSE { "address", "port" }

\* the threads that used a Monitor handle, after this one ran
UsersAfter(users, thread) ==
    IF thread = "main" \/ Captures(thread) \cap { "monitor", "trigger_monitor" } # {}
    THEN users \cup { thread }
    ELSE users

\* a notes update whose failure is returned with `?`
OnNotesError_Fatal(ok) == IF ok THEN "continue" ELSE "return"

\* process_update_event 318-325: an Err of update_event_notes is logged
OnNotesError(ok) == "continue"

\* an idle check that clears without asking
IdleFlush_Always(idle, cur) == ClearOf(cur)

\* lines 361-363: event_tracker.clear() when is_idle() answered true
IdleFlush(idle, cur) ==
    IF idle THEN ClearOf(cur) ELSE [cur |-> cur, ret |-> None]

\* a loop that reconnects and goes on after a shared-memory error
OnShmError_Reconnect(err) == "retry"

\* lines 337, 356, 361: `?` on the Result of next(), trigger() and is_idle()
\* returns the error from run()
OnShmError(err) == "return"

\* the errors of Monitor::read that tell of a restarted host
ShmErrors == { "ShmInvalid", "Stale" }

\* a loop that skips the idle check on a frame without detections
AfterInfer_SkipsIdleCheck(detected) == IF detected THEN "trigger" ELSE "tick"

\* line 343: `if detections.len() > 0 { .. trigger .. }`, then line 361
AfterInfer(detected) == IF detected THEN "trigger" ELSE "is_idle"

RunDetections == { d \in Detections : d.confidence = 5004 }

NoTick == [detected |-> FALSE, idle |-> "none", before |-> None,
           handed |-> << >>, failed |-> FALSE, logged |-> FALSE, triggers |-> 0]

NotStarted ==
    [pc |-> "start", env |-> None, yolo |-> FALSE, frames |-> 0, d |-> None,
     update |-> None, outstanding |-> 0, users |-> {}, queued |-> FALSE,
     served |-> FALSE, last_event_id |-> 0, tick |-> NoTick,
     shm_error |-> None, exit |-> [some |-> FALSE]]

\* a shared-memory operation of the loop answered Err(err): where `?` leads
ShmFailed(r, operation, err, cause) ==
    LET failed == [r EXCEPT !.shm_error = [some |-> TRUE, op |-> operation,
                                           err |-> err],
                            !.users = UsersAfter(@, "main")]
    IN IF OnShmError(err) = "return"
       THEN [failed EXCEPT !.pc = "exited",
                           !.exit = [some |-> TRUE, code |-> 1, cause |-> cause]]
       ELSE [failed EXCEPT !.pc = "next_image"]

\* the process ends: main returns the error, panics, or process::exit(1)
Exited(r, cause, status) ==
    [r EXCEPT !.pc = "exited",
              !.exit = [some |-> TRUE, code |-> status, cause |-> cause]]

\* main 78-79, run 302-313
Start ==
    /\ pc = "run"
    /\ UNCHANGED notRunVars
    /\ run.pc = "start"
    /\ \E env \in StartEnvs :
         run' = IF StartUp(env).ok
                THEN [run EXCEPT !.pc = "next_image", !.env = env,
                                 !.yolo = TRUE, !.users = UsersAfter(@, "main")]
                ELSE Exited([run EXCEPT !.env = env, !.yolo = StartUp(env).yolo,
                                 !.users = IF env.conf = "ok" /\ env.mmap
                                           THEN UsersAfter(@, "main") ELSE @],
                            StartUp(env),
                            ExitStatus(FALSE, StartUp(env).panicked))
    /\ UNCHANGED current_event

\* lines 336-337: the stream's next frame, or its error
NextImage ==
    /\ pc = "run"
    /\ UNCHANGED notRunVars
    /\ run.pc = "next_image"
    /\ \/ \E ok \in BOOLEAN :
            run' = IF ok
                   THEN [run EXCEPT !.pc = "infer", !.frames = 1, !.tick = NoTick,
                                    !.users = UsersAfter(@, "main")]
                   ELSE Exited([run EXCEPT !.users = UsersAfter(@, "main")],
                               "image", ExitStatus(FALSE, FALSE))
       \/ \E err \in ShmErrors : run' = ShmFailed(run, "next", err, "image")
    /\ UNCHANGED current_event

\* lines 338-354: infer, and the best detection when there is one
RunInfer ==
    /\ pc = "run"
    /\ UNCHANGED notRunVars
    /\ run.pc = "infer"
    /\ \/ run' = Exited(run, "infer", ExitStatus(FALSE, FALSE))
       \/ run' = [run EXCEPT !.pc = AfterInfer(FALSE), !.d = None]
       \/ /\ current_event.some => Len(current_event.detections) < MaxDetections
          /\ \E d \in RunDetections :
               run' = [run EXCEPT !.pc = AfterInfer(TRUE),
                                  !.d = [some |-> TRUE, value |-> d],
                                  !.tick.detected = TRUE]
    /\ UNCHANGED current_event

\* line 356, lines 252-256: the call of Monitor::trigger begins
TriggerCall ==
    /\ pc = "run"
    /\ UNCHANGED notRunVars
    /\ run.pc = "trigger"
    /\ run' = [run EXCEPT !.pc = "trigger_wait", !.outstanding = @ + 1,
                          !.tick.triggers = @ + 1,
                          !.users = UsersAfter(@, "main")]
    /\ UNCHANGED current_event

\* lines 356-357: trigger returns; push_detection with the event id
TriggerReturn ==
    /\ pc = "run"
    /\ UNCHANGED notRunVars
    /\ run.pc = "trigger_wait"
    /\ \/ /\ run' = Exited([run EXCEPT !.outstanding = @ - 1],
                           "Failed to trigger monitor ID",
                           ExitStatus(FALSE, FALSE))
          /\ UNCHANGED current_event
       \/ /\ \E err \in ShmErrors :
               run' = ShmFailed([run EXCEPT !.outstanding = @ - 1], "trigger", err,
                                "Failed to trigger monitor ID")
          /\ UNCHANGED current_event
       \/ \E event_id \in EventIds :
            /\ event_id >= run.last_event_id
            /\ current_event' = PushOf(current_event, run.d.value, event_id).cur
            /\ run' = [run EXCEPT
                  !.pc = "update_push", !.outstanding = @ - 1,
                  !.last_event_id = event_id,
                  !.update = PushOf(current_event, run.d.value, event_id).ret]

\* lines 315-327, called at 358 and at 367
ProcessUpdateEvent ==
    /\ pc = "run"
    /\ UNCHANGED notRunVars
    /\ run.pc \in { "update_push", "update_idle" }
    /\ \E ok \in BOOLEAN :
         LET after == IF run.pc = "update_push" THEN "is_idle" ELSE "tick"
             wrote == [run EXCEPT !.update = None,
                                  !.tick.handed = Append(@, run.update.event_id),
                                  !.tick.failed = ~ok,
                                  !.tick.logged = @ \/ ~ok]
         IN run' = IF ~run.update.some
                   THEN [run EXCEPT !.pc = after]
                   ELSE IF OnNotesError(ok) = "continue"
                        THEN [wrote EXCEPT !.pc = after]
                        ELSE Exited(wrote, "notes", ExitStatus(FALSE, FALSE))
    /\ UNCHANGED current_event

\* lines 361-366: is_idle on the trigger monitor, and the flush
IdleCheck ==
    /\ pc = "run"
    /\ UNCHANGED notRunVars
    /\ run.pc = "is_idle"
    /\ \/ /\ run' = Exited([run EXCEPT !.users = UsersAfter(@, "main")],
                           "is_idle", ExitStatus(FALSE, FALSE))
          /\ UNCHANGED current_event
       \/ /\ \E err \in ShmErrors : run' = ShmFailed(run, "is_idle", err, "is_idle")
          /\ UNCHANGED current_event
       \/ \E idle \in BOOLEAN :
            /\ current_event' = IdleFlush(idle, current_event).cur
            /\ run' = [run EXCEPT
                  !.pc = IF idle THEN "update_idle" ELSE "tick",
                  !.update = IdleFlush(idle, current_event).ret,
                  !.users = UsersAfter(@, "main"),
                  !.tick.idle = IF idle THEN "idle" ELSE "busy",
                  !.tick.before = current_event,
                  !.tick.handed = << >>]

\* line 380: pacemaker.tick(), which sleeps
RunPacemakerTick ==
    /\ pc = "run"
    /\ UNCHANGED notRunVars
    /\ run.pc = "tick"
    /\ run' = [run EXCEPT !.pc = "reset"]
    /\ UNCHANGED current_event

\* line 381: watchdog.reset(), then the next iteration
RunWatchdogReset ==
    /\ pc = "run"
    /\ UNCHANGED notRunVars
    /\ run.pc = "reset"
    /\ run' = [run EXCEPT !.pc = "next_image", !.queued = TRUE]
    /\ UNCHANGED current_event

\* the watchdog thread, lines 529-534: it receives a reset, or its timeout
\* passes while the main thread is somewhere in the loop
WatchdogStep ==
    /\ pc = "run"
    /\ UNCHANGED notRunVars
    /\ run.pc \notin { "start", "exited" }
    /\ run' = IF run.queued
              THEN [run EXCEPT !.queued = FALSE,
                               !.users = UsersAfter(@, "watchdog")]
              ELSE Exited([run EXCEPT !.users = UsersAfter(@, "watchdog")],
                          "Watchdog expired", 1)
    /\ UNCHANGED current_event

\* the metrics thread answers a request, instrumentation.rs 27-30
MetricsRequest ==
    /\ pc = "run"
    /\ UNCHANGED notRunVars
    /\ run.pc \notin { "start", "exited" }
    /\ ~run.served
    /\ run' = [run EXCEPT !.served = TRUE, !.users = UsersAfter(@, "metrics")]
    /\ UNCHANGED current_event

----------------------------------------------------------------------------
(* Initial states and specifications                                        *)

TriggerDataInit(showtext) ==
    [ size |-> TriggerDataSize, trigger_state |-> TriggerCancel,
      trigger_score |-> 0, padding |-> 0,
      trigger_cause |-> Zeros(CauseCap), trigger_text |-> Zeros(TextCap),
      trigger_showtext |-> showtext ]

SharedDataInit(state, format, lwi) ==
    [ size |-> SharedDataSize, last_write_index |-> lwi, state |-> state,
      last_event_id |-> 0, valid |-> 1, format |-> format,
      imagesize |-> FrameWidth * FrameHeight * Channels(format) ]

InitCommon ==
    /\ pathIno = Ino
    /\ op = "none"
    /\ args = NoArgs
    /\ n = 0
    /\ snap = NoSnap
    /\ td_local = TriggerDataInit(Zeros(ShowtextCap))
    /\ result = NoResult
    /\ logged = FALSE
    /\ stream = NoStream
    /\ wlog = << >>
    /\ lastRead = NoRead
    /\ touched = FALSE
    /\ envSteps = 0
    /\ emitted = << >>
    /\ exitObs = NoExit
    /\ current_event = None
    /\ tr_ret = None
    /\ tr_hist = NoHist

\* the resolver and MonitorShm are not in use
IdleLayout ==
    /\ memory_pm = << >>
    /\ LAYOUT = Unresolved
    /\ file = << >>
    /\ access = NoAccess

\* stream_images has not computed offsets
IdleOffsets ==
    /\ config = [image_buffer_count |-> ImageBufferCount]
    /\ shared_timestamps_offset = videostore_data_offset
    /\ shared_images_offset = NoOffset

\* ThreadedWatchdog::new: empty channel, the thread starts to wait
IdleWatchdog ==
    /\ watchdog = [queued |-> 0, waited |-> 0, since_reset |-> 0, late |-> FALSE]
    /\ main_loop = "running"
    /\ exit_code = NoExitCode

NoRow == [Name |-> << >>, Coords |-> << >>]

NotPaced == [ticks |-> 0, workloads |-> << >>, sampled |-> FALSE,
             slept |-> [num |-> 0, den |-> 1],
             tick_interval |-> [num |-> 0, den |-> 1]]

\* no stage of the pipeline has run, but for the one named
IdleStagesBut(stage) ==
    /\ stage = "infer" \/ inferred = [done |-> FALSE]
    /\ stage = "zone" \/ (dbzone = NoRow /\ zone_config = [state |-> "none"])
    /\ pacemaker = NewPacemaker
    /\ paced = NotPaced
    /\ stage = "run" \/ run = NotStarted

IdleStages == IdleStagesBut("none")

\* after Monitor::connect on a running, idle monitor (the host moves it to
\* the other states); trigger_showtext may hold text left by the host
InitTrigger ==
    /\ InitCommon
    /\ IdleLayout
    /\ IdleOffsets
    /\ IdleWatchdog
    /\ IdleStages
    /\ pc = "idle"
    /\ shm = [sd |-> SharedDataInit(Idle, SPO_RGBA, ImageBufferCount),
              td |-> TriggerDataInit(Buf(ShowtextCap, << 90, 77 >>, 0))]

NextTrigger ==
    \/ Trigger
    \/ IsIdle
    \/ pread
    \/ set_check
    \/ set_w1
    \/ set_w2
    \/ poll_check
    \/ reset_check
    \/ reset_w1
    \/ reset_w2
    \/ ret_check
    \/ idle_check
    \/ PublisherSetState
    \/ PublisherNewEvent
    \/ PublisherSetValid
    \/ ReplaceFile
    \/ RenameOver
    \/ OtherWriter

SpecTrigger == InitTrigger /\ [][NextTrigger]_vars

\* after Monitor::connect; before the first frame the host's last_write_index
\* is image_buffer_count
InitStream ==
    /\ InitCommon
    /\ IdleLayout
    /\ IdleOffsets
    /\ IdleWatchdog
    /\ IdleStages
    /\ pc = "idle"
    /\ \E format \in {SPO_NONE, SPO_RGB, SPO_RGBA, SPO_ABGR} :
          shm = [sd |-> SharedDataInit(Idle, format, ImageBufferCount),
                 td |-> TriggerDataInit(Zeros(ShowtextCap))]

NextStream ==
    \/ StreamImages
    \/ StreamNext
    \/ pread
    \/ si_check
    \/ wait_check
    \/ img_check
    \/ img_read
    \/ PublisherFrame
    \/ PublisherSetValid
    \/ ReplaceFile
    \/ RenameOver

SpecStream == InitStream /\ [][NextStream]_vars

InitTracker ==
    /\ InitCommon
    /\ IdleLayout
    /\ IdleOffsets
    /\ IdleWatchdog
    /\ IdleStages
    /\ pc = "tracker"
    /\ shm = [sd |-> SharedDataInit(Idle, SPO_RGBA, ImageBufferCount),
              td |-> TriggerDataInit(Zeros(ShowtextCap))]

NextTracker ==
    \/ PushDetection
    \/ clear

SpecTracker == InitTracker /\ [][NextTracker]_vars

\* process start: Memory.pm as installed, LAYOUT not yet used
InitLayout ==
    /\ InitCommon
    /\ pc = "layout"
    /\ shm = [sd |-> SharedDataInit(Idle, SPO_RGBA, ImageBufferCount),
              td |-> TriggerDataInit(Zeros(ShowtextCap))]
    /\ memory_pm \in Descriptors
    /\ LAYOUT = Unresolved
    /\ file = << >>
    /\ access = NoAccess
    /\ IdleOffsets
    /\ IdleWatchdog
    /\ IdleStages

NextLayout ==
    \/ ResolveLayout
    \/ ReadField
    \/ WriteField
    \/ WriteString

SpecLayout == InitLayout /\ [][NextLayout]_vars

\* the region every spec but SpecTrigger and SpecStream leaves alone
InitRegion ==
    shm = [sd |-> SharedDataInit(Idle, SPO_RGBA, ImageBufferCount),
           td |-> TriggerDataInit(Zeros(ShowtextCap))]

\* stream_images after the config query, for each configured ring size
InitImagesOffset ==
    /\ InitCommon
    /\ pc = "offsets"
    /\ InitRegion
    /\ IdleLayout
    /\ IdleWatchdog
    /\ IdleStages
    /\ config \in [image_buffer_count : 0..MaxConfiguredBuffers]
    /\ shared_timestamps_offset \in
          { videostore_data_offset + sz : sz \in VideoStoreDataSizes }
    /\ shared_images_offset = NoOffset

NextImagesOffset == ComputeImagesOffset

SpecImagesOffset == InitImagesOffset /\ [][NextImagesOffset]_vars

\* run() after ThreadedWatchdog::new
InitWatchdog ==
    /\ InitCommon
    /\ pc = "watchdog"
    /\ InitRegion
    /\ IdleLayout
    /\ IdleOffsets
    /\ IdleWatchdog
    /\ IdleStages

NextWatchdog ==
    \/ WatchdogReset
    \/ MainLoopStalls
    \/ Tick
    \/ WatchdogThread

\* time passes and the watchdog thread is scheduled
SpecWatchdog ==
    /\ InitWatchdog
    /\ [][NextWatchdog]_vars
    /\ WF_vars(Tick)
    /\ WF_vars(WatchdogThread)

\* a call of infer: the detector returned its list, the zone is configured
InitInfer ==
    /\ InitCommon
    /\ pc = "infer"
    /\ InitRegion
    /\ IdleLayout
    /\ IdleOffsets
    /\ IdleWatchdog
    /\ IdleStagesBut("infer")
    /\ \E len \in 0..MaxYolo :
       \E yolo \in [1..len -> YoloDetections] :
       \E min_area \in { None, [some |-> TRUE, value |-> ZoneMinArea] } :
       \E origin \in { << 0, 0 >>, << 3, 7 >> } :
          inferred = [done |-> FALSE, yolo |-> yolo, min_area |-> min_area,
                      bounding_box |-> [x |-> origin[1], y |-> origin[2]],
                      detections |-> << >>]

NextInfer == Infer

SpecInfer == InitInfer /\ [][NextInfer]_vars

\* the strings of Init: tokens joined by single blanks
RECURSIVE Join(_)
Join(tokens) ==
    IF tokens = << >> THEN << >>
    ELSE IF Len(tokens) = 1 THEN tokens[1]
    ELSE tokens[1] \o << " " >> \o Join(Tail(tokens))

\* first tokens and option tokens of a zone's Name
TagTokens == { << "aidect" >>, << "Size", "=", "7" >> }
OptionTokens ==
    { << "Size", "=", "1", "2", "8" >>, << "Size", "=", "x" >>, << "Size" >>,
      << "Size", "=" >>, << "Threshold", "=", "5", "0" >>,
      << "MinArea", "=", "9", "0", "0" >>, << "Trigger", "=", "+", "2" >>,
      << "FPS", "=", "5", "=", "1" >>, << "FPS", "=", "-", "5" >>,
      << "=", "3" >> }

\* points of a zone's Coords, for a monitor of ZoneFrame
ZoneFrame == [width |-> 8, height |-> 6]
PointTokens ==
    { << "0", ",", "0" >>, << "4", ",", "0" >>, << "4", ",", "3" >>,
      << "1", "2", ",", "3" >>, << "-", "1", ",", "2" >>, << "x", ",", "1" >>,
      << "5" >> }

\* get_zone_config after the query returned a row: the Name varies with the
\* Coords of a triangle, or the Coords vary with the Name "aidect"
InitZone ==
    /\ InitCommon
    /\ pc = "zone"
    /\ InitRegion
    /\ IdleLayout
    /\ IdleOffsets
    /\ IdleWatchdog
    /\ IdleStagesBut("zone")
    /\ zone_config = [state |-> "none"]
    /\ \/ \E tag \in TagTokens, len \in 0..MaxTokens :
          \E options \in [1..len -> OptionTokens] :
             dbzone = [tokens |-> << tag >> \o options,
                       Name |-> Join(<< tag >> \o options),
                       points |-> << << "0", ",", "0" >>, << "4", ",", "0" >>,
                                     << "4", ",", "3" >> >>,
                       Coords |-> Join(<< << "0", ",", "0" >>, << "4", ",", "0" >>,
                                          << "4", ",", "3" >> >>)]
       \/ \E len \in 0..MaxPoints :
          \E points \in [1..len -> PointTokens] :
             dbzone = [tokens |-> << << "aidect" >> >>,
                       Name |-> << "aidect" >>,
                       points |-> points,
                       Coords |-> Join(points)]

NextZone == ParseZone

SpecZone == InitZone /\ [][NextZone]_vars

\* run() after RealtimePacemaker::new
InitPacemaker ==
    /\ InitCommon
    /\ pc = "pacemaker"
    /\ InitRegion
    /\ IdleLayout
    /\ IdleOffsets
    /\ IdleWatchdog
    /\ IdleStages

NextPacemaker == PacemakerTick

SpecPacemaker == InitPacemaker /\ [][NextPacemaker]_vars

\* the process starts in main with the run subcommand
InitRun ==
    /\ InitCommon
    /\ pc = "run"
    /\ InitRegion
    /\ IdleLayout
    /\ IdleOffsets
    /\ IdleWatchdog
    /\ IdleStages

NextRun ==
    \/ Start
    \/ NextImage
    \/ RunInfer
    \/ TriggerCall
    \/ TriggerReturn
    \/ ProcessUpdateEvent
    \/ IdleCheck
    \/ RunPacemakerTick
    \/ RunWatchdogReset
    \/ WatchdogStep
    \/ MetricsRequest

SpecRun == InitRun /\ [][NextRun]_vars

\* the whole program: every operation against one region
Init == InitTrigger \/ InitStream \/ InitTracker \/ InitLayout
            \/ InitImagesOffset \/ InitWatchdog \/ InitInfer \/ InitZone
            \/ InitPacemaker \/ InitRun
Next == NextTrigger \/ NextStream \/ NextTracker \/ NextLayout
            \/ NextImagesOffset \/ NextWatchdog \/ NextInfer \/ NextZone
            \/ NextPacemaker \/ NextRun
Spec == Init /\ [][Next]_vars

----------------------------------------------------------------------------
(* Properties                                                               *)

\* the pwrite w covers every byte of TriggerData field f
Covers(w, f) ==
    /\ w.offset <= trigger_data_offset + TdField[f].off
    /\ trigger_data_offset + TdField[f].off + TdField[f].len <= w.offset + w.len

\* the pwrite w stores the cause, text and score of the call's arguments a
CarriesAux(w, a) ==
    /\ Covers(w, "trigger_cause") /\ Covers(w, "trigger_text")
    /\ Covers(w, "trigger_score")
    /\ w.data.trigger_score = a.score
    /\ \A i \in 1..Len(a.cause) : ByteAt(w.data.trigger_cause, i) = a.cause[i]
    /\ \A i \in 1..Len(a.description) :
          ByteAt(w.data.trigger_text, i) = a.description[i]

TextZeroed(td) ==
    /\ td.trigger_score = 0
    /\ AllZero(td.trigger_cause)
    /\ AllZero(td.trigger_text)
    /\ AllZero(td.trigger_showtext)

C2_PollLeftAfterTimeout ==
    pc \in {"poll_pread", "poll_check"} => n <= PollGiveUp + 1

\* C3 (as stated): before the timeout the poll loop is left for the reset
\* step only on a read that observed state = Alarm.
C3_ExitOnlyOnAlarm ==
    (exitObs.some /\ ~exitObs.timed_out) => exitObs.state = Alarm

\* C3 (amended): before the timeout, a poll whose read succeeded leaves the
\* loop for the reset step exactly when it observed Alarm or Alert; observing
\* Unknown, Idle, Prealarm or Tape keeps it polling.
C3_ExitOnAlarmOrAlert ==
    [][ (pc = "poll_check" /\ pc' # pc /\ n <= PollGiveUp
            /\ lastRead'.outcome = "Ok")
        => /\ pc' = "reset_pread" <=> snap.sd.state \in {Alarm, Alert}
           /\ pc' # "reset_pread" => (pc' = "poll_pread" /\ n' = n + 1) ]_vars

C3_Witness ==
    /\ exitObs.some
    /\ ~exitObs.timed_out
    /\ exitObs.state = Alert
    /\ pc = "reset_pread"

\* C4: when trigger has returned Ok and no other writer touched TriggerData,
\* the region holds trigger_state = Cancel, score 0 and all-zero text fields;
\* the third write (zeroing) comes before the fourth (Cancel).
C4_ResetLeavesCancelAndZeros ==
    (op = "trigger" /\ ~touched) =>
        /\ (pc = "idle" /\ result.kind = "Ok") =>
              /\ shm.td.trigger_state = TriggerCancel
              /\ TextZeroed(shm.td)
        /\ Len(wlog) >= 3 =>
              /\ TextZeroed(wlog[3].data)
              /\ wlog[3].data.trigger_state = TriggerOn
        /\ pc = "reset_w2" => (TextZeroed(shm.td) /\ shm.td.trigger_state = TriggerOn)
        /\ Len(wlog) >= 4 =>
              wlog[4].data = [wlog[3].data EXCEPT !.trigger_state = TriggerCancel]

C4_Witness ==
    /\ op = "trigger" /\ ~touched
    /\ pc = "idle" /\ result.kind = "Ok"
    /\ Len(wlog) = 4
    /\ ~TextZeroed(wlog[2].data)

\* C5: a read() whose snapshot has valid = 0 answers ShmInvalid (never Ok),
\* also when the path went stale: the call ends with that error.
C5_InvalidSnapshotIsShmInvalid ==
    (lastRead.some /\ lastRead.valid = 0) =>
        /\ lastRead.outcome = "ShmInvalid"
        /\ pc = "idle"
        /\ result = Err("ShmInvalid")

C5_Witness ==
    /\ lastRead.some /\ lastRead.valid = 0 /\ lastRead.stale
    /\ result = Err("ShmInvalid")

\* C6 (as stated): every read() made while the path resolves to another
\* inode fails with the stale-mapping error.
C6_StaleReadIsStaleError ==
    (lastRead.some /\ lastRead.stale) => result = Err("Stale")

\* C6 (amended): every read() made while the path resolves to another inode
\* fails, with ShmInvalid when its snapshot has valid = 0 and with the
\* stale-mapping error otherwise, and the calling operation has returned.
C6_StaleReadFails ==
    (lastRead.some /\ lastRead.stale) =>
        /\ pc = "idle"
        /\ result = Err(IF lastRead.valid = 0 THEN "ShmInvalid" ELSE "Stale")

C6_Witness ==
    /\ lastRead.some /\ lastRead.stale /\ lastRead.valid = 1
    /\ op = "next"
    /\ result = Err("Stale")

\* C7: a frame the stream emits never has the slot index of the frame emitted
\* just before it, and never the sentinel image_buffer_count.
C7_NoRepeatNoSentinel ==
    /\ Len(emitted) = 2 => emitted[1] # emitted[2]
    /\ \A i \in 1..Len(emitted) : emitted[i] # U32(ImageBufferCount)

C7_Witness ==
    /\ Len(emitted) = 2
    /\ shm.sd.last_write_index = ImageBufferCount
    /\ pc = "idle" /\ result.kind = "Ok"

\* C8: a push with an id different from the current event's returns
\* Some(update) for the current event and leaves a new event holding only
\* the pushed detection.
C8_PushOtherIdFlushes ==
    (tr_hist.call = "push" /\ tr_hist.before.some
        /\ tr_hist.before.event_id # tr_hist.last_id)
    => /\ tr_ret.some
       /\ tr_ret.event_id = tr_hist.before.event_id
       /\ current_event = [some |-> TRUE, event_id |-> tr_hist.last_id,
                           detections |-> << tr_hist.d >>]

C8_Witness ==
    /\ tr_hist.call = "push" /\ tr_hist.before.some
    /\ tr_hist.before.event_id # tr_hist.last_id
    /\ Len(tr_hist.before.detections) >= 2
    /\ tr_ret.some

\* C9: clear() returns Some exactly when a push happened since the last
\* clear (or since new), and then with the id of the most recent push.
C9_ClearReturnsLastPushed ==
    tr_hist.call = "clear" =>
        /\ tr_ret.some <=> tr_hist.pushes_before > 0
        /\ tr_ret.some => tr_ret.event_id = tr_hist.last_id
        /\ ~current_event.some

C9_Witness ==
    /\ tr_hist.call = "clear"
    /\ tr_hist.pushes_before >= 2
    /\ tr_ret.some

\* C11: a push on a tracker without current event returns None and starts an
\* event with the given id; a push with the current event's id returns None,
\* appends the detection and keeps the id.
C11_PushSameOrFirstReturnsNone ==
    (tr_hist.call = "push"
        /\ (~tr_hist.before.some \/ tr_hist.before.event_id = tr_hist.last_id))
    => /\ tr_ret = None
       /\ current_event =
            [some |-> TRUE, event_id |-> tr_hist.last_id,
             detections |-> IF tr_hist.before.some
                            THEN Append(tr_hist.before.detections, tr_hist.d)
                            ELSE << tr_hist.d >>]

C11_Witness ==
    /\ tr_hist.call = "push"
    /\ tr_hist.before.some
    /\ tr_hist.before.event_id = tr_hist.last_id
    /\ Len(current_event.detections) = MaxDetections
    /\ tr_ret = None

\* indexes of s whose key is the maximum
MaxKeyIndexes(s) ==
    { i \in 1..Len(s) : \A j \in 1..Len(s) : ConfidenceKey(s[j]) <= ConfidenceKey(s[i]) }
FirstIndex(S) == CHOOSE i \in S : \A j \in S : i <= j
LastIndex(S) == CHOOSE i \in S : \A j \in S : j <= i

\* the last EventTracker call flushed the event tr_hist.before
Flushed == tr_ret.some /\ tr_hist.before.some

\* C10 (as stated): the flushed detection has the maximum
\* floor(confidence * 1000); among several with that maximum, the first pushed.
C10_BestIsFirstOfMax ==
    Flushed =>
        tr_ret.detection =
            tr_hist.before.detections[FirstIndex(MaxKeyIndexes(tr_hist.before.detections))]

\* C10 (amended): ... among several with that maximum, the last pushed.
C10_BestIsLastOfMax ==
    Flushed =>
        tr_ret.detection =
            tr_hist.before.detections[LastIndex(MaxKeyIndexes(tr_hist.before.detections))]

C10_Witness ==
    /\ Flushed
    /\ \E i, j \in MaxKeyIndexes(tr_hist.before.detections) :
          /\ i < j
          /\ tr_hist.before.detections[i] # tr_hist.before.detections[j]
    /\ \E k \in 1..Len(tr_hist.before.detections) :
          k \notin MaxKeyIndexes(tr_hist.before.detections)

\* the smallest multiple of a that is >= x
AlignUp(x, a) == CHOOSE m \in x..(x + a - 1) : m % a = 0

\* end (offset + size) of field i of the resolved layout
FieldEnd(i) == LAYOUT.fields[i].offset + LAYOUT.fields[i].typ.size

\* C12: in the layout calculate_offsets produces, each field after the first
\* starts at a multiple of its alignment, namely at the end of the field
\* before it rounded up to that alignment, so consecutive fields never overlap.
C12_ConsecutiveFieldsAligned ==
    LAYOUT.resolved =>
        \A i \in 2..Len(LAYOUT.fields) :
            LET F2 == LAYOUT.fields[i] IN
            /\ F2.offset % F2.typ.alignment = 0
            /\ F2.offset = AlignUp(FieldEnd(i - 1), F2.typ.alignment)
            /\ F2.offset >= FieldEnd(i - 1)

C12_Witness ==
    /\ LAYOUT.resolved
    /\ \E i \in 2..Len(LAYOUT.fields) : LAYOUT.fields[i].offset > FieldEnd(i - 1)
    /\ \E i \in 2..Len(LAYOUT.fields) : LAYOUT.fields[i].offset = FieldEnd(i - 1)

\* the descriptor of tests::test_read_memory_pm
CanonicalInput ==
    << [name |-> "SharedData", fields |->
          << [name |-> "size", typename |-> Typename("uint32", FALSE, 0)],
             [name |-> "startup_time", typename |-> Typename("time_t64", FALSE, 0)],
             [name |-> "audio_fifo", typename |-> Typename("int8", TRUE, 64)] >>],
       [name |-> "TriggerData", fields |->
          << [name |-> "size", typename |-> Typename("uint32", FALSE, 0)],
             [name |-> "trigger_cause", typename |-> Typename("int8", TRUE, 32)] >>] >>

OffsetOf(name) == LAYOUT.fields[lookup_field(LAYOUT, name)].offset

\* C13 (as stated): the cursor restarts at 0 for every declared struct, so the
\* first field of each declared struct has offset 0; for the descriptor
\* SharedData{size, startup_time, audio_fifo}, TriggerData{size,
\* trigger_cause} the offsets are 0, 8, 16 and 0, 4.
C13_CursorRestartsPerStruct ==
    LAYOUT.resolved =>
        /\ \A k \in 1..Len(memory_pm) :
              OffsetOf(Qualified(memory_pm[k].name, memory_pm[k].fields[1].name)) = 0
        /\ memory_pm = CanonicalInput =>
              /\ OffsetOf(Qualified("SharedData", "size")) = 0
              /\ OffsetOf(Qualified("SharedData", "startup_time")) = 8
              /\ OffsetOf(Qualified("SharedData", "audio_fifo")) = 16
              /\ OffsetOf(Qualified("TriggerData", "size")) = 0
              /\ OffsetOf(Qualified("TriggerData", "trigger_cause")) = 4

\* indexes of the resolved fields that belong to TriggerData
TriggerIndexes ==
    { i \in 1..Len(LAYOUT.fields) : LAYOUT.fields[i].name[1] = "TriggerData" }
\* region offset of TriggerData and its size
TriggerBase == LAYOUT.fields[CHOOSE i \in TriggerIndexes :
                                \A j \in TriggerIndexes : i <= j].offset
TriggerSize == FieldEnd(CHOOSE i \in TriggerIndexes :
                                \A j \in TriggerIndexes : j <= i) - TriggerBase
\* number of fields the descriptor declares
RECURSIVE DeclaredFrom(_)
DeclaredFrom(k) ==
    IF k > Len(memory_pm) THEN 0 ELSE Len(memory_pm[k].fields) + DeclaredFrom(k + 1)

AccessedField == LAYOUT.fields[lookup_field(LAYOUT, access.name)]
\* positions of `file` that differ from what they held before the access
ChangedBytes == { j \in 1..Len(file) : file[j] # access.before[j] }

\* C15: read_field<T>(n) / write_field<T>(n, v) on a field n of the layout
\* panics, before any I/O, exactly when the (size, alignment) recorded for n
\* differs from T's; when they match, the access is to exactly size_of(T)
\* bytes at the field's offset.
C15_TypedAccessChecked ==
    (access.op \in {"read_field", "write_field"}
        /\ lookup_field(LAYOUT, access.name) # 0)
    => /\ access.outcome = "PanicMismatch" <=> AccessedField.typ # access.typ
       /\ access.outcome # "PanicMismatch" => access.outcome = "Ok"
       /\ access.outcome = "PanicMismatch" =>
             (~access.io.some /\ file = access.before)
       /\ access.outcome = "Ok" =>
             /\ access.io = Io(AccessedField.offset, access.typ.size)
             /\ access.op = "read_field" => file = access.before
             /\ access.op = "write_field" =>
                   ChangedBytes = (AccessedField.offset + 1)
                                    .. (AccessedField.offset + access.typ.size)

C15_Witness ==
    /\ access.op = "write_field"
    /\ lookup_field(LAYOUT, access.name) # 0
    /\ access.outcome = "PanicMismatch"
    /\ AccessedField.typ.size = access.typ.size

\* C16: write_string(name, s) on a field of the layout succeeds exactly when
\* the field's size is greater than len(s); it then stores s followed by one
\* zero byte at the field's offset and leaves every other byte as it was.
C16_WriteStringFrame ==
    (access.op = "write_string" /\ lookup_field(LAYOUT, access.name) # 0)
    => /\ access.outcome = "Ok" <=> AccessedField.typ.size > Len(access.value)
       /\ access.outcome # "Ok" => (access.outcome = "PanicAssert" /\ file = access.before)
       /\ access.outcome = "Ok" =>
             \A j \in 1..Len(file) :
                file[j] =
                    IF j > AccessedField.offset
                          /\ j <= AccessedField.offset + Len(access.value)
                    THEN access.value[j - AccessedField.offset]
                    ELSE IF j = AccessedField.offset + Len(access.value) + 1
                         THEN 0
                         ELSE access.before[j]

C16_Witness ==
    /\ access.op = "write_string"
    /\ lookup_field(LAYOUT, access.name) # 0
    /\ access.outcome = "Ok"
    /\ Len(access.value) > 0
    /\ Len(access.value) + 1 < AccessedField.typ.size
    /\ file[AccessedField.offset + Len(access.value) + 2] # 0

\* the byte array holds a zero byte within its capacity
HasTerminator(buf) == \E i \in 1..buf.cap : ByteAt(buf, i) = 0

\* C17 (as stated): whatever the length of cause and description, the trigger
\* call does not fail on them, and the trigger_cause and trigger_text it
\* writes hold a zero byte within their capacity.
C17_LongTextTruncated ==
    (op = "trigger" /\ args.some) =>
        /\ ~(pc = "panicked"
               /\ (Len(args.cause) > CauseCap \/ Len(args.description) > TextCap))
        /\ \A i \in 1..Len(wlog) :
              /\ HasTerminator(wlog[i].data.trigger_cause)
              /\ HasTerminator(wlog[i].data.trigger_text)

\* C18: a step of the monitor client (one that moves pc) leaves SharedData,
\* TriggerData.size and TriggerData.padding as they were: the only bytes of
\* the region it changes are those of trigger_state, trigger_score,
\* trigger_cause, trigger_text and trigger_showtext.
C18_OnlyTriggerFieldsChange ==
    [][ pc' # pc =>
          /\ shm'.sd = shm.sd
          /\ shm'.td.size = shm.td.size
          /\ shm'.td.padding = shm.td.padding ]_vars

C18_Witness ==
    /\ op = "trigger"
    /\ pc = "reset_w2"
    /\ Len(wlog) = 3
    /\ Covers(wlog[3], "size") /\ Covers(wlog[3], "padding")
    /\ shm.td.trigger_state = TriggerOn
    /\ shm.td.size = TriggerDataSize

C20_StallLeadsToExit ==
    (main_loop = "stalled") ~> (exit_code.some /\ exit_code.code = 1)

C20_Witness ==
    /\ main_loop = "stalled"
    /\ exit_code.some /\ exit_code.code = 1
    /\ watchdog.queued = 0
    /\ watchdog.waited = WatchdogFactor

\* the detection d moved by the zone's crop offset
Translated(d, zone_box) ==
    [d EXCEPT !.bounding_box.x = @ + zone_box.x,
              !.bounding_box.y = @ + zone_box.y]

\* C23 (as stated): infer keeps a detection iff its class is whitelisted and
\* its area is not below MinArea (0 when unset), so an area equal to MinArea is
\* kept; the kept detections are translated by the zone's offset and are
\* otherwise unchanged.
C23_KeptIffWhitelistedAndNotBelowMinArea ==
    inferred.done =>
        LET expected == SelectSeq(inferred.yolo, LAMBDA d :
                /\ d.class_id \in { 1, 3, 15, 16, 17 }
                /\ ~(d.bounding_box.width * d.bounding_box.height
                        < (IF inferred.min_area.some
                           THEN inferred.min_area.value ELSE 0)))
        IN /\ Len(inferred.detections) = Len(expected)
           /\ \A i \in 1..Len(expected) :
                 inferred.detections[i]
                    = Translated(expected[i], inferred.bounding_box)

\* the option tokens of the row's Name that are Key=Value with this key, by
\* position in the Name (the first token is the zone tag)
TokensOf(key) ==
    { i \in 2..Len(dbzone.tokens) :
        /\ Len(dbzone.tokens[i]) >= 2
        /\ dbzone.tokens[i][1] = key
        /\ dbzone.tokens[i][2] = "=" }

\* the unsigned integer a token's value denotes: digits after an optional "+"
UnsignedOf(token) ==
    LET v == SubSeq(token, 3, Len(token))
        digits == IF v # << >> /\ v[1] = "+" THEN Tail(v) ELSE v
    IN IF digits # << >>
          /\ \A i \in 1..Len(digits) : \E k \in 1..10 : DigitChars[k] = digits[i]
       THEN [some |-> TRUE, value |-> DigitsValue(digits, 1, 0)]
       ELSE None

\* C26 (as stated): each of Size, Trigger, FPS, MinArea is Some(n) exactly when
\* the key is present with a value that parses as the unsigned integer n, and
\* None otherwise.
C26_SomeIffKeyPresentAndParses ==
    zone_config.state = "parsed" =>
        \A f \in { << "Size", "size" >>, << "Trigger", "trigger" >>,
                   << "FPS", "fps" >>, << "MinArea", "min_area" >> } :
            LET got == zone_config.config[f[2]]
                present == { UnsignedOf(dbzone.tokens[i]).value :
                               i \in { j \in TokensOf(f[1]) :
                                         UnsignedOf(dbzone.tokens[j]).some } }
            IN /\ got.some <=> present # {}
               /\ \A v \in present : got.some /\ got.value = v

\* C26 (amended): each of Size, Trigger, FPS, MinArea is what the LAST
\* Key=Value token with that key (after the first token) gives: Some(n) when
\* its value parses as the unsigned integer n, None when it does not or when
\* no token has the key; Threshold likewise is Some(v/100); the name
\* "aidect Size=128 Threshold=50 MinArea=900" gives size 128, threshold 0.5,
\* min_area 900, trigger None, fps None.
C26_LastKeyDecides ==
    zone_config.state = "parsed" =>
        /\ \A f \in { << "Size", "size" >>, << "Trigger", "trigger" >>,
                      << "FPS", "fps" >>, << "MinArea", "min_area" >> } :
              zone_config.config[f[2]] =
                 IF TokensOf(f[1]) = {} THEN None
                 ELSE UnsignedOf(dbzone.tokens[
                         CHOOSE i \in TokensOf(f[1]) :
                            \A j \in TokensOf(f[1]) : j <= i])
        /\ TokensOf("Threshold") = {} => ~zone_config.config.threshold.some
        /\ \A i \in TokensOf("Threshold") :
              (\A j \in TokensOf("Threshold") : j <= i)
                 /\ UnsignedOf(dbzone.tokens[i]).some
              => /\ zone_config.config.threshold.some
                 /\ zone_config.config.threshold.num
                       = UnsignedOf(dbzone.tokens[i]).value
                 /\ zone_config.config.threshold.den = 100
        /\ dbzone.tokens = << << "aidect" >>, << "Size", "=", "1", "2", "8" >>,
                              << "Threshold", "=", "5", "0" >>,
                              << "MinArea", "=", "9", "0", "0" >> >>
              => /\ zone_config.config.size = [some |-> TRUE, value |-> 128]
                 /\ zone_config.config.threshold.some
                 /\ zone_config.config.threshold.num * 2
                       = zone_config.config.threshold.den
                 /\ zone_config.config.min_area = [some |-> TRUE, value |-> 900]
                 /\ zone_config.config.trigger = None
                 /\ zone_config.config.fps = None

C26_Witness ==
    /\ zone_config.state = "parsed"
    /\ dbzone.tokens = << << "aidect" >>, << "Size", "=", "1", "2", "8" >>,
                          << "Threshold", "=", "5", "0" >>,
                          << "MinArea", "=", "9", "0", "0" >> >>
    /\ zone_config.config.size.some

\* C27 (as stated): every ZoneConfig that ZoneConfig::parse returns has a
\* polygon of at least 3 points, and its bounding box has positive width
\* and height and lies inside the monitor's frame.
C27_ZoneShapeWellFormed ==
    zone_config.state = "parsed" =>
        /\ Len(zone_config.config.shape) >= 3
        /\ zone_config.bounding_box.width > 0
        /\ zone_config.bounding_box.height > 0
        /\ zone_config.bounding_box.x >= 0
        /\ zone_config.bounding_box.y >= 0
        /\ zone_config.bounding_box.x + zone_config.bounding_box.width
              <= ZoneFrame.width
        /\ zone_config.bounding_box.y + zone_config.bounding_box.height
              <= ZoneFrame.height

\* the workloads before the ticks so far (at most the last SmaWindow) were all w
ConstantWorkload(w) ==
    /\ paced.workloads # << >>
    /\ \A i \in 1..Len(paced.workloads) : paced.workloads[i] = w

\* C22: the first tick only records the timestamp; every later tick sleeps
\* max(0, target_interval - average of the last up-to-10 samples); and when
\* the workloads of the last up-to-10 ticks were a constant w < target_interval
\* (so at the latest 10 ticks after the workload became constant) the sleep is
\* target_interval - w and the tick-to-tick interval is target_interval.
C22_PacemakerSleep ==
    /\ paced.ticks = 0 => ~pacemaker.last_tick /\ pacemaker.avg = << >>
    /\ paced.ticks = 1 => /\ pacemaker.last_tick
                          /\ pacemaker.avg = << >>
                          /\ ~paced.sampled
                          /\ paced.slept.num = 0
    /\ paced.ticks >= 1 => pacemaker.last_tick
    /\ paced.sampled =>
          LET total == SumSeq(paced.workloads)
              count == Len(paced.workloads)
          IN /\ count <= SmaWindow
             /\ IF TargetInterval * count - total > 0
                THEN paced.slept.num * count
                        = (TargetInterval * count - total) * paced.slept.den
                ELSE paced.slept.num = 0
    /\ \A w \in Workloads :
          w < TargetInterval /\ ConstantWorkload(w) =>
             /\ paced.slept.num = (TargetInterval - w) * paced.slept.den
             /\ paced.tick_interval.num = TargetInterval * paced.tick_interval.den

C22_Witness ==
    /\ paced.ticks = SmaWindow + 1
    /\ Len(paced.workloads) = SmaWindow
    /\ ConstantWorkload(1)
    /\ paced.slept.num = (TargetInterval - 1) * paced.slept.den
    /\ paced.tick_interval.num = TargetInterval * paced.tick_interval.den

\* C21: at most one trigger call is outstanding on the Monitor: a call starts
\* only when none is outstanding; and no thread but the main thread ever uses
\* a Monitor handle.
C21_OneTriggerOneThread ==
    /\ run.outstanding <= 1
    /\ run.pc = "trigger" => run.outstanding = 0
    /\ run.pc \notin { "trigger_wait", "exited" } => run.outstanding = 0
    /\ run.users \subseteq { "main" }

C21_Witness ==
    /\ run.pc = "trigger_wait"
    /\ run.outstanding = 1
    /\ run.last_event_id >= 1
    /\ run.served
    /\ run.users = { "main" }

\* C24 (as stated): every TrackedEvent that was started is flushed; in
\* particular when the process ends, the tracker holds no event that was not
\* handed to the notes update.
C24_NoEventHeldAtExit ==
    run.exit.some => ~current_event.some

\* the start-up failed on the configuration: host config missing or
\* unparseable, or no aidect zone row
ConfigError ==
    /\ run.pc = "exited"
    /\ \/ run.env.conf # "ok"
       \/ run.env.mmap /\ run.env.db /\ run.env.zone_rows = 0

\* C25 (as stated): the process exits with 2 on a configuration error and
\* with 1 on any other failure, watchdog expiry included.
C25_ExitCodes ==
    run.exit.some => run.exit.code = IF ConfigError THEN 2 ELSE 1

\* C28: with no aidect zone row for the monitor, get_zone_config returns an
\* error that names the monitor id, and start-up stops there: no panic, the
\* detector is not built, no frame is read.
C28_NoZoneRowStopsStartup ==
    run.pc # "start" /\ run.env.conf = "ok" /\ run.env.mmap /\ run.env.db
        /\ run.env.zone_rows = 0
    => /\ run.pc = "exited"
       /\ ~run.exit.cause.ok
       /\ ~run.exit.cause.panicked
       /\ run.exit.cause.text = "No aidect zone found for monitor"
       /\ run.exit.cause.id = run.env.monitor_id
       /\ ~run.yolo
       /\ run.frames = 0
       /\ run.outstanding = 0

C28_Witness ==
    /\ run.pc = "exited"
    /\ run.env.conf = "ok" /\ run.env.mmap /\ run.env.db
    /\ run.env.zone_rows = 0
    /\ run.env.monitor_id = 6
    /\ run.exit.cause.id = 6

\* C29: at the end of a tick whose idle check read Idle the tracker holds no
\* current event, and exactly one UpdateEvent, for the event it held before
\* the check, was handed to the notes update (none when it held none); when
\* the check read another state the tracker is as before and nothing was
\* handed on.
C29_IdleTickFlushes ==
    run.pc \in { "tick", "reset", "next_image" } /\ run.tick.idle # "none" =>
        IF run.tick.idle = "idle"
        THEN /\ ~current_event.some
             /\ run.tick.handed = IF run.tick.before.some
                                  THEN << run.tick.before.event_id >>
                                  ELSE << >>
        ELSE /\ current_event = run.tick.before
             /\ run.tick.handed = << >>

C29_Witness ==
    /\ run.pc = "tick"
    /\ run.tick.idle = "idle"
    /\ run.tick.before.some
    /\ run.tick.handed = << run.tick.before.event_id >>
    /\ ~current_event.some

\* C30: a notes write that fails is logged and the loop goes on: the step
\* leads to the position a successful write leads to (the idle check after a
\* push, pacemaker.tick and watchdog.reset after the idle flush), the process
\* does not exit, and the tracker is left as it was.
C30_FailedNotesWriteGoesOn ==
    [][ Len(run'.tick.handed) > Len(run.tick.handed) /\ run'.tick.failed =>
          /\ run'.pc = IF run.pc = "update_push" THEN "is_idle" ELSE "tick"
          /\ ~run'.exit.some
          /\ run'.tick.logged
          /\ current_event' = current_event ]_vars

C30_Witness ==
    /\ run.pc = "next_image"
    /\ run.queued
    /\ run.tick.idle = "idle"
    /\ run.tick.failed
    /\ run.tick.logged
    /\ Len(run.tick.handed) = 1

----------------------------------------------------------------------------
(* C33  (zoneminder.rs 261-296)                                             *)

\* C33: the stream takes the newest frame: the slot that is read and emitted
\* is the last_write_index seen by the read() of the same poll iteration,
\* whatever number of slots the host advanced since the frame before.
C33_EmitsSlotOfSameIterationRead ==
    /\ pc \in {"img_check", "img_read"} =>
          /\ lastRead.some
          /\ stream.last_read_index = AsU32(lastRead.last_write_index)
    /\ (op = "next" /\ pc = "idle" /\ result.kind = "Ok") =>
          /\ lastRead.some
          /\ emitted[Len(emitted)] = AsU32(lastRead.last_write_index)

\* two frames emitted, the host two slots further at the second one
C33_Witness ==
    /\ op = "next" /\ pc = "idle" /\ result.kind = "Ok"
    /\ emitted = << U32(0), U32(2) >>
    /\ lastRead.last_write_index = 2

----------------------------------------------------------------------------
(* C34  (zoneminder.rs 223-247, 276-285)                                    *)

\* C34: a monitor whose imagesize is width x height x channels(format) yields
\* frames for every subpixel order: next() never runs into an assertion
\* failure or a panic.
C34_EveryFormatYieldsFrames ==
    (/\ stream.open
     /\ op = "next"
     /\ stream.image_size = stream.width * stream.height * Channels(stream.format))
        => pc # "panicked"

----------------------------------------------------------------------------
(* C36  (zoneminder.rs 261-274, 287-296)                                    *)

\* C36: whatever last_write_index the host exposes, the slot read by
\* read_image_into is inside the ring, index in [0, image_buffer_count), and
\* so is every slot emitted.
C36_ReadsStayInRing ==
    /\ pc = "img_read" =>
          U32Less(stream.last_read_index, stream.image_buffer_count)
    /\ \A i \in 1..Len(emitted) :
          U32Less(emitted[i], stream.image_buffer_count)

----------------------------------------------------------------------------
(* C35  (zoneminder.rs 113-114)                                             *)

\* C35: trigger returns the last_event_id of a read() made after both writes
\* of reset_trigger: the read that answers is asked for only once the four
\* writes are done, and the value returned is the one that read saw, not the
\* one seen when the poll loop was left.
C35_ReturnsFreshEventId ==
    /\ pc \in {"ret_pread", "ret_check"} =>
          /\ Len(wlog) = 4
          /\ wlog[4].data.trigger_state = TriggerCancel
    /\ (op = "trigger" /\ pc = "idle" /\ result.kind = "Ok") =>
          /\ Len(wlog) = 4
          /\ lastRead.some
          /\ result.value = lastRead.last_event_id

\* the host created an event after the poll loop was left: the new id is returned
C35_Witness ==
    /\ op = "trigger" /\ pc = "idle" /\ result.kind = "Ok"
    /\ exitObs.some
    /\ exitObs.last_event_id = 0
    /\ result.value = 1

----------------------------------------------------------------------------
(* C37  (zoneminder.rs 97-115, 132-141)                                     *)

\* C37: a trigger call that wrote trigger_state = On has written
\* trigger_state = Cancel afterwards when it returns, with Ok or with the
\* error of a read that found the region invalid or the mapping stale.
C37_OnIsCancelledBeforeReturn ==
    (/\ op = "trigger" /\ pc = "idle"
     /\ \/ result.kind = "Ok"
        \/ result.kind = "Err" /\ result.err \in {"ShmInvalid", "Stale"}) =>
        \A i \in 1..Len(wlog) :
            wlog[i].data.trigger_state = TriggerOn =>
                \E j \in (i + 1)..Len(wlog) :
                    wlog[j].data.trigger_state = TriggerCancel

----------------------------------------------------------------------------
(* C39  (zoneminder.rs 117-141, 173-176)                                    *)

\* C39: the first write of set_trigger and of reset_trigger does not mean to
\* set trigger_state: the trigger_state in the region after that write is the
\* one that was there just before it, also when another writer changed it
\* after the call's read.
C39_FirstWriteKeepsOthersUpdate ==
    [][(pc \in {"set_w1", "reset_w1"} /\ pc' # pc) =>
           shm'.td.trigger_state = shm.td.trigger_state]_vars

----------------------------------------------------------------------------
(* C38  (main.rs 417-465)                                                   *)

\* the run of consecutive pushes with one id that is open after the calls
\* made so far: the id of the last push, none after new() or clear()
OpenRun(h) ==
    IF h.call = "push" THEN [some |-> TRUE, event_id |-> h.last_id] ELSE None

\* the tracker holds the open run and nothing else; its list is never empty
C38_HoldsOpenRun ==
    /\ current_event.some <=> OpenRun(tr_hist).some
    /\ current_event.some =>
          /\ current_event.event_id = OpenRun(tr_hist).event_id
          /\ Len(current_event.detections) >= 1

\* C38: the tracker loses and duplicates nothing.  Every call returns an
\* UpdateEvent exactly when it closes a run (a push with another id, or a
\* clear, while a run is open), the update carries the id of the run it
\* closes, and the tracker afterwards holds exactly the run left open, with a
\* non-empty detection list.
C38_OneUpdatePerClosedRun ==
    [][/\ C38_HoldsOpenRun'
       /\ LET open == OpenRun(tr_hist)
              closes == /\ open.some
                        /\ \/ tr_hist'.call = "clear"
                           \/ /\ tr_hist'.call = "push"
                              /\ tr_hist'.last_id # open.event_id
          IN  /\ tr_ret'.some <=> closes
              /\ closes => tr_ret'.event_id = open.event_id]_vars

\* a run of two pushes with id 1 has just been closed by a push with id 2
C38_Witness ==
    /\ tr_hist.call = "push"
    /\ tr_hist.last_id = 2
    /\ tr_hist.before.some
    /\ tr_hist.before.event_id = 1
    /\ Len(tr_hist.before.detections) = 2
    /\ tr_ret.some /\ tr_ret.event_id = 1
    /\ current_event.some /\ current_event.event_id = 2

----------------------------------------------------------------------------
(* C40  (main.rs 380-381, 525-544)                                          *)

\* C40: the watchdog thread calls exit only when a whole timeout has passed
\* since the last watchdog.reset() (since ThreadedWatchdog::new before the
\* first one): while resets are less than the timeout apart the process is
\* not terminated, however the two threads are interleaved.
C40_NoExitWhileTicking ==
    exit_code.some => watchdog.since_reset >= WatchdogFactor

\* the watchdog thread was scheduled after its deadline, found a reset that
\* was sent in time, and the process goes on
C40_Witness ==
    /\ ~exit_code.some
    /\ main_loop = "running"
    /\ watchdog.late
    /\ watchdog.since_reset < WatchdogFactor

----------------------------------------------------------------------------
(* C31  (main.rs 336-361)                                                   *)

\* C31: a ShmInvalid or stale-mapping error of next(), trigger() or is_idle()
\* in the loop ends the process at once with an error status: the step that
\* meets the error is the exit, and nothing runs after it (no tick, no
\* trigger, no new session).
C31_ShmErrorEndsLoop ==
    [][/\ run'.shm_error.some =>
             /\ run'.pc = "exited"
             /\ run'.exit.some
             /\ run'.exit.code # 0
       /\ run.shm_error.some => run' = run]_vars

\* trigger met a stale mapping on a frame with a detection
C31_Witness ==
    /\ run.pc = "exited"
    /\ run.shm_error.some
    /\ run.shm_error.op = "trigger"
    /\ run.shm_error.err = "Stale"
    /\ run.tick.triggers = 1
    /\ run.exit.code = 1

----------------------------------------------------------------------------
(* C32  (main.rs 336-385)                                                   *)

\* the positions of one iteration of the loop, each with its successor
TickOrder ==
    { << "next_image", "infer" >>,
      << "infer", "trigger" >>, << "infer", "is_idle" >>,
      << "trigger", "trigger_wait" >>, << "trigger_wait", "update_push" >>,
      << "update_push", "is_idle" >>,
      << "is_idle", "update_idle" >>, << "is_idle", "tick" >>,
      << "update_idle", "tick" >>,
      << "tick", "reset" >>, << "reset", "next_image" >> }

\* C32: in every iteration the steps come in the order frame, inference and
\* filter, trigger (only with a non-empty filtered list), push and notes
\* update, idle check (and its notes update), pacemaker.tick, watchdog.reset;
\* trigger is called at most once per iteration and never without a detection.
C32_TickOrder ==
    [][(run'.pc # run.pc /\ run.pc # "start" /\ run'.pc # "exited") =>
          /\ << run.pc, run'.pc >> \in TickOrder
          /\ run'.pc = "trigger" => run'.d.some
          /\ (run.pc = "infer" /\ run'.pc = "is_idle") => ~run'.d.some
          /\ run'.tick.triggers <= 1
          /\ run'.tick.triggers = 1 => run'.tick.detected]_vars

\* an iteration with a detection went through every step
C32_Witness ==
    /\ run.pc = "next_image"
    /\ run.queued
    /\ run.tick.detected
    /\ run.tick.triggers = 1
    /\ run.tick.idle = "idle"
    /\ Len(run.tick.handed) = 1
    /\ ~run.tick.failed
====
